---- MODULE Spec2Model ----
(***************************************************************************)
(* Hadron: orchestration engine of an AI-driven SDLC pipeline.             *)
(*                                                                         *)
(* The module models parts of the repository, each under its own           *)
(* specification:                                                          *)
(*   SpecBus     events/bus.py and the SSE generator that reads it         *)
(*   SpecIv      events/interventions.py (interventions and nudges)        *)
(*   SpecEdges   pipeline/edges.py (the conditional edge functions)        *)
(*   Spec        worker/main.py driving pipeline/graph.py, with the        *)
(*               resume endpoint of controller/routes/pipeline.py          *)
(*   SpecStages  the same run with every event the nodes emit              *)
(*   SpecPick    worker/main.py, _pick_resume_node                         *)
(*   SpecTools   the tool executors of agent/claude.py and agent/tools.py  *)
(*   SpecCmd     models/cr.py, validate_test_command                       *)
(*   SpecChain   agent/provider_chain.py, ProviderChain.execute            *)
(*   SpecRetry   the rate-limit retry loops of the agent backends          *)
(*   SpecPhases  agent/claude.py, the explore, plan and act phases         *)
(*   SpecSse     controller/routes/events.py over events/bus.py            *)
(*   SpecIntervene  the worker's run with the intervene endpoint           *)
(*   SpecReview  pipeline/nodes/review.py, the three reviewers             *)
(*   SpecTdd     pipeline/nodes/tdd.py and the test runs of the nodes      *)
(*   SpecRebase  pipeline/nodes/rebase.py, conflicts and their retries     *)
(*   SpecDelivery  pipeline/nodes/delivery.py and the run after it         *)
(*   SpecNudge   nudges polled by the tool loops of the backends           *)
(*   SpecOffer   the tool loop against the tools it was offered            *)
(*   SpecResumeRace  concurrent resume requests and the job spawner        *)
(***************************************************************************)
EXTENDS Integers, Sequences, FiniteSets, TLC

VARIABLES
    \* ---- event bus (KVS streams) and one SSE client
    streams,      \* cr_id -> sequence of entries [id, type] (Redis stream)
    clock,        \* last stream id handed out by the KVS
    cpc,          \* position of the SSE client's generator
    ccr,          \* cr_id the client asked for
    cursor,       \* last_id / current_id of the client ("0" is 0)
    buffer,       \* entries returned by replay / xread, not yet yielded
    delivered,    \* ids the client has been handed, in order
    replayCount,  \* number of events replay() returned (-1 before replay)
    atSubscribe,  \* stream length at the first xread of subscribe (-1 before)
    seenEmpty     \* stream length when an xread last returned nothing (-1)

clientVars == <<cpc, ccr, cursor, buffer, delivered, replayCount,
                atSubscribe, seenEmpty>>

busVars == <<streams, clock, clientVars>>

VARIABLES
    \* ---- intervention manager (KVS string keys)
    kv,           \* key -> stored value, NoValue when the key is absent
    setSeq,       \* number of set_* calls so far; the n-th call stores n
    returns,      \* stored value -> number of polls that returned it
    lastOp        \* the last call: [op, key, result]

ivVars == <<kv, setSeq, returns, lastOp>>

VARIABLES
    \* ---- one call of a conditional edge function
    edgeState,    \* the PipelineState handed to the edge function
    edgeFn,       \* name of the edge function called ("none" before the call)
    edgeLabel     \* label it returned

edgeVars == <<edgeState, edgeFn, edgeLabel>>

VARIABLES
    \* ---- one CR ("cr1"): its RDB row, its Worker, the checkpoint store
    rdb,          \* the CRRun row: [status, cost_usd, error]
    overridesKey, \* hadron:cr:{id}:resume_overrides (EmptyDict when absent)
    ckpt,         \* checkpoint of thread cr_id: [values, next]
    wpc,          \* position of the Worker process
    checkpointer, \* whether a Worker's checkpointer can be set up (deployment)
    st,           \* the graph's PipelineState
    node,         \* the node the graph runs next ("END" when finished)
    from,         \* the node whose outgoing edge led to node
    hist          \* history: what has happened to the run so far

wkVars == <<rdb, overridesKey, ckpt, wpc, checkpointer, st, node, from, hist>>

VARIABLES
    \* ---- the review node's three concurrent reviewers (asyncio.gather)
    gather        \* reviewer role -> "idle" | "pending" | "started" | "done"

VARIABLES
    \* ---- one call of _pick_resume_node
    pickIn,       \* the override map handed in
    pickOut       \* the node name returned ("none" before the call)

pickVars == <<pickIn, pickOut>>

VARIABLES
    \* ---- one call of the agent's tool executor
    toolBackend,  \* "claude" (claude.py _execute_tool) or "gemini" (tools.py)
    toolName,     \* tool name of the call
    toolInput,    \* input map of the call
    toolFault,    \* whether the file system fails the operation (I/O error)
    toolOut,      \* the string handed back to the agent loop, as tokens
    toolTouched,  \* resolved paths the call read, wrote, created or listed
    toolRaised    \* whether the call raised to the agent loop

toolVars == <<toolBackend, toolName, toolInput, toolFault, toolOut,
              toolTouched, toolRaised>>

VARIABLES
    \* ---- one POST /pipeline/trigger, as far as the test command goes
    cmdIn,        \* the submitted test_command, a sequence of symbols
    cmdStatus,    \* "none" before the request, then "accepted" or "rejected"
    cmdStored,    \* test_command of the CR row (<<>> while there is no row)
    cmdRow        \* whether a CR row was created

cmdVars == <<cmdIn, cmdStatus, cmdStored, cmdRow>>

VARIABLES
    \* ---- one ProviderChain.execute(task)
    chNatural,    \* provider_for_model(task.model)
    chRegistry,   \* provider names that have a registered backend
    chConfig,     \* config.chain, the configured order
    chOrder,      \* providers = _resolve_order(task.model)
    chIdx,        \* position of the for loop in providers
    chPc,         \* "start", "loop", "returned" or "raised"
    chCalls,      \* providers whose backend.execute was invoked, in order
    chFailed,     \* providers whose backend.execute raised
    chLastError,  \* last_error: the provider whose exception it is, or "None"
    chResult      \* the provider whose result was returned ("none" if none)

chainVars == <<chNatural, chRegistry, chConfig, chOrder, chIdx, chPc, chCalls,
               chFailed, chLastError, chResult>>

VARIABLES
    \* ---- one provider call under the rate-limit retry loop
    rtSite,   \* which loop: "tool_loop", "plan_call" (claude) or "gemini"
    rtAttempt,   \* attempt, the loop variable of range(_RATE_LIMIT_MAX_RETRIES)
    rtPc,   \* "call", "sleep", "returned" or "raised"
    rtErrors,   \* the exception of every failed call, in order
    rtWaits,   \* the argument of every asyncio.sleep, in order
    rtRaised   \* the exception that left the loop ("none" if none)

retryVars == <<rtSite, rtAttempt, rtPc, rtErrors, rtWaits, rtRaised>>

VARIABLES
    \* ---- one ClaudeAgentBackend.execute(task)
    phTask,   \* the AgentTask: model, explore_model, plan_model, on_event
    phPhase,   \* "explore", "plan", "act", "done" or "raised"
    phStep,   \* "enter", "call" or "exit": position inside the phase
    phRound,   \* provider calls made by the running phase
    phLoop,   \* [input, output] accumulated by the running phase
    phTotal,   \* total_input, total_output, total_cost of execute
    phSummary,   \* exploration_summary ("" or a text)
    phPlan,   \* plan_text ("" or a text)
    phTrace   \* provider calls and phase events, in order

phaseVars == <<phTask, phPhase, phStep, phRound, phLoop, phTotal, phSummary, phPlan, phTrace>>

VARIABLES
    \* ---- a caller of replay(cr_id, from_id) and the SSE generator's client
    sseFrom,   \* from_id handed to replay (the SSE generator passes "0")
    sseSeen,   \* length of the stream when replay scanned it (-1 before)
    sseGone   \* request.is_disconnected()

sseVars == <<sseFrom, sseSeen, sseGone>>

VARIABLES
    \* ---- one execution of review_node
    rvRepos,   \* number of affected_repos
    rvLoop,   \* state.review_loop_count when the node starts
    rvPc,   \* "enter", "gather", "exit" or "done"
    rvOut,   \* role -> the reviewer's task: status, raw output, parsed review
    rvResults,   \* review_results, one entry per finished repo
    rvUpdate,   \* the update the node returns (review_passed, review_loop_count)
    rvCompleted   \* stage_completed for "review" was emitted

rvVars == <<rvRepos, rvLoop, rvPc, rvOut, rvResults, rvUpdate, rvCompleted>>

VARIABLES
    \* ---- one execution of a node that runs the repos' test command
    tdNode,   \* "tdd", "rebase" or "delivery"
    tdRepos,   \* number of affected_repos
    tdMax,   \* max_tdd_iterations of the config snapshot
    tdLoop,   \* state.dev_loop_count when the node starts
    tdRepo,   \* index of the repo the loop is at
    tdIter,   \* iteration, the loop variable of the green phase
    tdPc,   \* position inside the node, "done" or "raised" at its end
    tdTrace,   \* agents run, test runs and commits, in order
    tdUpdate   \* dev_loop_count of the returned update (-1 before)

tdVars == <<tdNode, tdRepos, tdMax, tdLoop, tdRepo, tdIter, tdPc, tdTrace, tdUpdate>>

VARIABLES
    \* ---- one execution of rebase_node
    rbRepos,   \* number of affected_repos
    rbRepo,   \* index of the repo the first loop is at
    rbPc,   \* position inside the node
    rbAttempt,   \* attempt, the loop variable of the retries
    rbContinued,   \* rebase_continued
    rbClean,   \* all_clean
    rbConflicts,   \* conflicts, the repos whose rebase stopped on a conflict
    rbCalls,   \* repo -> number of conflict_resolver executions
    rbEnd,   \* repo -> how its rebase ended ("none" before)
    rbUpdate   \* the returned result_state, NoUpdate before

rbVars == <<rbRepos, rbRepo, rbPc, rbAttempt, rbContinued, rbClean, rbConflicts, rbCalls, rbEnd, rbUpdate>>

VARIABLES
    \* ---- delivery_node and the rest of the run after it
    dlRepos,   \* number of affected_repos
    dlRepo,   \* index of the repo the loop is at
    dlPc,   \* position: "repo", "return", "graph", "done"
    dlResults,   \* delivery_results: [tests_passing, branch_pushed] per repo
    dlState,   \* the pipeline state
    dlNode,   \* the node the graph runs next
    dlPath,   \* the nodes run after delivery, in order
    dlFinal   \* final_status computed by the Worker ("none" before)

dlVars == <<dlRepos, dlRepo, dlPc, dlResults, dlState, dlNode, dlPath, dlFinal>>

VARIABLES
    \* ---- one tool loop of an agent backend and the nudges sent to it
    ngBackend,   \* "claude" (_run_tool_loop) or "gemini" (execute)
    ngMax,   \* max_rounds / task.max_tool_rounds
    ngOnEvent,   \* an on_event callback is set
    ngPoller,   \* a nudge_poll callable is set
    ngRound,   \* round_num of the next provider call
    ngPc,   \* "loop" while rounds remain, "done" after the loop
    ngMessages,   \* messages / contents, by kind
    ngSent,   \* nudges contained in the messages of some provider call
    ngKey,   \* the nudge stored under the role's key, 0 when absent
    ngSet,   \* number of nudges the operator has set
    ngConsumed,   \* [id, round] for every nudge the poller returned, in order
    ngEvents,   \* ids of the nudge events emitted
    ngPolls,   \* number of calls of the poller
    ngToolRounds   \* number of rounds that executed tools and did not end the turn

ngVars == <<ngBackend, ngMax, ngOnEvent, ngPoller, ngRound, ngPc, ngMessages, ngSent, ngKey, ngSet, ngConsumed, ngEvents, ngPolls, ngToolRounds>>

VARIABLES
    \* ---- one tool loop and the tool set it was given
    ofLoop,   \* "explore", "reviewer" or "act"
    ofOffered,   \* names of the tools passed to the provider call
    ofMax,   \* max_rounds
    ofRound,   \* round_num
    ofPc,   \* "loop" or "done"
    ofCalls   \* [name, performed] per tool-use block handled, in order

ofVars == <<ofLoop, ofOffered, ofMax, ofRound, ofPc, ofCalls>>

VARIABLES
    \* ---- concurrent resume requests for one CR
    rrStatus,   \* status of the CR's row, "none" before the trigger
    rrPc,   \* request -> "idle", "checked", "updated", "done"
    rrResponse,   \* request -> 0, 200, 404 or 409
    rrSpawned,   \* Workers spawned that have not yet started
    rrRunning,   \* Workers running
    rrOverlap   \* some request began while another was being handled

rrVars == <<rrStatus, rrPc, rrResponse, rrSpawned, rrRunning, rrOverlap>>

agentVars == <<pickVars, toolVars, cmdVars, chainVars, retryVars, phaseVars, sseVars, rvVars, tdVars, rbVars, dlVars, ngVars, ofVars, rrVars>>

\* everything but one of the groups above
exceptPick == <<toolVars, cmdVars, chainVars, retryVars, phaseVars, sseVars, rvVars, tdVars, rbVars, dlVars, ngVars, ofVars, rrVars>>

exceptTool == <<pickVars, cmdVars, chainVars, retryVars, phaseVars, sseVars, rvVars, tdVars, rbVars, dlVars, ngVars, ofVars, rrVars>>

exceptCmd == <<pickVars, toolVars, chainVars, retryVars, phaseVars, sseVars, rvVars, tdVars, rbVars, dlVars, ngVars, ofVars, rrVars>>

exceptChain == <<pickVars, toolVars, cmdVars, retryVars, phaseVars, sseVars, rvVars, tdVars, rbVars, dlVars, ngVars, ofVars, rrVars>>

exceptRetry == <<pickVars, toolVars, cmdVars, chainVars, phaseVars, sseVars, rvVars, tdVars, rbVars, dlVars, ngVars, ofVars, rrVars>>

exceptPhase == <<pickVars, toolVars, cmdVars, chainVars, retryVars, sseVars, rvVars, tdVars, rbVars, dlVars, ngVars, ofVars, rrVars>>

exceptSse == <<pickVars, toolVars, cmdVars, chainVars, retryVars, phaseVars, rvVars, tdVars, rbVars, dlVars, ngVars, ofVars, rrVars>>

exceptRv == <<pickVars, toolVars, cmdVars, chainVars, retryVars, phaseVars, sseVars, tdVars, rbVars, dlVars, ngVars, ofVars, rrVars>>

exceptTd == <<pickVars, toolVars, cmdVars, chainVars, retryVars, phaseVars, sseVars, rvVars, rbVars, dlVars, ngVars, ofVars, rrVars>>

exceptRb == <<pickVars, toolVars, cmdVars, chainVars, retryVars, phaseVars, sseVars, rvVars, tdVars, dlVars, ngVars, ofVars, rrVars>>

exceptDl == <<pickVars, toolVars, cmdVars, chainVars, retryVars, phaseVars, sseVars, rvVars, tdVars, rbVars, ngVars, ofVars, rrVars>>

exceptNg == <<pickVars, toolVars, cmdVars, chainVars, retryVars, phaseVars, sseVars, rvVars, tdVars, rbVars, dlVars, ofVars, rrVars>>

exceptOf == <<pickVars, toolVars, cmdVars, chainVars, retryVars, phaseVars, sseVars, rvVars, tdVars, rbVars, dlVars, ngVars, rrVars>>

exceptRr == <<pickVars, toolVars, cmdVars, chainVars, retryVars, phaseVars, sseVars, rvVars, tdVars, rbVars, dlVars, ngVars, ofVars>>

lateVars == <<gather, agentVars>>

\* bus, interventions, edge call, worker and reviewers
coreVars == <<busVars, ivVars, edgeVars, wkVars, gather>>

vars == <<busVars, ivVars, edgeVars, wkVars, lateVars>>

\* ------------------------------------------------------------------ bounds
MaxEvents == 4        \* emits explored per behaviour of SpecBus
MaxSets == 3          \* set_intervention / set_nudge calls per behaviour
EdgeMaxCount == 4     \* largest loop count / maximum handed to an edge function
MaxResumes == 1       \* accepted resume requests per behaviour
MaxCost == 1          \* largest accumulated cost / token count explored
MaxRejects == 0       \* rejections by the reviewers per behaviour of SpecStages
MaxCmdLen == 4        \* longest submitted test_command, in symbols
MaxChainLen == 2      \* longest configured provider chain
MaxRounds == 2        \* tool rounds granted to one phase (max_tool_rounds)
MaxSseEvents == 3     \* events on the stream an SSE client follows
MaxRepos == 2         \* affected repos of one change request
MaxNudges == 2        \* nudges sent while one agent loop runs
MaxRequests == 2      \* resume requests sent for one CR

\* --------------------------------------------------------------- constants
XREAD_COUNT == 50     \* count= of the blocking read in subscribe

CRS == {"cr1", "cr2"}

EventTypes == {"stage_entered", "pipeline_completed"}

\* ------------------------------------------------------------------ helpers
Last(s) == s[Len(s)]

RECURSIVE SelectFrom(_, _, _)
\* entries of s whose id satisfies lo <= id (incl = TRUE) or lo < id
SelectFrom(s, lo, incl) ==
    IF s = <<>> THEN <<>>
    ELSE IF (incl /\ Head(s).id >= lo) \/ (~incl /\ Head(s).id > lo)
         THEN <<Head(s)>> \o SelectFrom(Tail(s), lo, incl)
         ELSE SelectFrom(Tail(s), lo, incl)

Take(s, n) == IF Len(s) <= n THEN s ELSE SubSeq(s, 1, n)

Ids(s) == [i \in 1..Len(s) |-> s[i].id]

\* ---------------------------------------------------------------- event bus
_stream_key(cr_id) == cr_id

\* XRANGE key min=from_id : inclusive range scan
XRange(cr_id, from_id) == SelectFrom(streams[_stream_key(cr_id)], from_id, TRUE)

\* XREAD {key: current_id} count=50 : strictly after current_id
XReadInclusive(cr_id, current_id) ==
    Take(SelectFrom(streams[_stream_key(cr_id)], current_id, TRUE), XREAD_COUNT)
XRead(cr_id, current_id) ==
    Take(SelectFrom(streams[_stream_key(cr_id)], current_id, FALSE), XREAD_COUNT)

\* replay(): last_id is the id of the last entry scanned, "0" if none
ReplayLastId(entries) == IF entries = <<>> THEN 0 ELSE Last(entries).id

\* emit(event): XADD with a fresh, larger id (ids need not be consecutive)
emit(cr_id, type, stage, gap) ==
    /\ clock' = clock + gap
    /\ streams' = [streams EXCEPT ![_stream_key(cr_id)] =
                       Append(@, [id |-> clock + gap, type |-> type,
                                  stage |-> stage])]

TotalEvents == Len(streams["cr1"]) + Len(streams["cr2"])

Emit ==
    /\ TotalEvents < MaxEvents
    /\ \E cr \in CRS, t \in EventTypes, gap \in {1, 2} : emit(cr, t, "worker", gap)
    /\ UNCHANGED <<clientVars, ivVars, edgeVars, wkVars, lateVars>>

\* _event_generator: events, last_id = await event_bus.replay(cr_id)
Replay ==
    /\ cpc = "start"
    /\ LET entries == XRange(ccr, 0) IN
        /\ buffer' = entries
        /\ cursor' = ReplayLastId(entries)
        /\ replayCount' = Len(entries)
    /\ cpc' = "replayed"
    /\ UNCHANGED <<streams, clock, ccr, delivered, atSubscribe, seenEmpty>>
    /\ UNCHANGED <<ivVars, edgeVars, wkVars, lateVars>>

\* for event in events: yield ...
YieldReplayed ==
    /\ cpc = "replayed"
    /\ buffer # <<>>
    /\ delivered' = Append(delivered, Head(buffer).id)
    /\ buffer' = Tail(buffer)
    /\ UNCHANGED <<streams, clock, cpc, ccr, cursor, replayCount,
                   atSubscribe, seenEmpty>>
    /\ UNCHANGED <<ivVars, edgeVars, wkVars, lateVars>>

\* subscribe(): entries = await xread({key: current_id}, block=5000, count=50)
SubscribeRead ==
    /\ cpc \in {"replayed", "subscribed"}
    /\ buffer = <<>>
    /\ LET entries == XRead(ccr, cursor) IN
        /\ buffer' = entries
        /\ seenEmpty' = IF entries = <<>> THEN Len(streams[ccr]) ELSE -1
    /\ atSubscribe' = IF cpc = "replayed" THEN Len(streams[ccr]) ELSE atSubscribe
    /\ cpc' = "subscribed"
    /\ UNCHANGED <<streams, clock, ccr, cursor, delivered, replayCount>>
    /\ UNCHANGED <<ivVars, edgeVars, wkVars, lateVars>>

\* for msg_id, fields in messages: current_id = msg_id; yield event
YieldLive ==
    /\ cpc = "subscribed"
    /\ buffer # <<>>
    /\ cursor' = Head(buffer).id
    /\ delivered' = Append(delivered, Head(buffer).id)
    /\ buffer' = Tail(buffer)
    /\ UNCHANGED <<streams, clock, cpc, ccr, replayCount, atSubscribe, seenEmpty>>
    /\ UNCHANGED <<ivVars, edgeVars, wkVars, lateVars>>

BusIdle ==
    /\ streams = [c \in CRS |-> <<>>]
    /\ clock = 0
    /\ cpc = "start"
    /\ ccr = "cr1"
    /\ cursor = 0
    /\ buffer = <<>>
    /\ delivered = <<>>
    /\ replayCount = -1
    /\ atSubscribe = -1
    /\ seenEmpty = -1

BusInit ==
    /\ streams = [c \in CRS |-> <<>>]
    /\ clock = 0
    /\ cpc = "start"
    /\ ccr \in CRS
    /\ cursor = 0
    /\ buffer = <<>>
    /\ delivered = <<>>
    /\ replayCount = -1
    /\ atSubscribe = -1
    /\ seenEmpty = -1

BusNext == Emit \/ Replay \/ YieldReplayed \/ SubscribeRead \/ YieldLive

\* ------------------------------------------------------ intervention manager
NoValue == 0      \* Python None: the key does not exist

Roles == {"code_writer", "spec_writer"}

_intervention_key(cr_id) == <<"intervention", cr_id>>
_nudge_key(cr_id, role) == <<"nudge", cr_id, role>>

IvKeys == {_intervention_key(c) : c \in CRS}
            \cup {_nudge_key(c, r) : c \in CRS, r \in Roles}

\* redis.set(key, value): overwrites any prior entry
KvSet(key, value) == [kv EXCEPT ![key] = value]

\* pipe.get(key); pipe.delete(key); pipe.execute(): one MULTI/EXEC
\* transaction; results[0] is the GET, the DEL removes the key
PipeGet(key) == kv[key]
PipeDeleteSkipped(key) == kv
PipeDelete(key) == [kv EXCEPT ![key] = NoValue]

SetCall(key) ==
    /\ setSeq < MaxSets
    /\ setSeq' = setSeq + 1
    /\ kv' = KvSet(key, setSeq + 1)
    /\ lastOp' = [op |-> "set", key |-> key, result |-> NoValue]
    /\ UNCHANGED returns

PollCall(key) ==
    LET value == PipeGet(key) IN
    /\ kv' = PipeDelete(key)
    /\ returns' = IF value = NoValue THEN returns
                  ELSE [returns EXCEPT ![value] = @ + 1]
    /\ lastOp' = [op |-> "poll", key |-> key, result |-> value]
    /\ UNCHANGED setSeq

set_intervention ==
    /\ \E c \in CRS : SetCall(_intervention_key(c))
    /\ UNCHANGED <<busVars, edgeVars, wkVars, lateVars>>

set_nudge ==
    /\ \E c \in CRS, r \in Roles : SetCall(_nudge_key(c, r))
    /\ UNCHANGED <<busVars, edgeVars, wkVars, lateVars>>

poll_intervention ==
    /\ \E c \in CRS : PollCall(_intervention_key(c))
    /\ UNCHANGED <<busVars, edgeVars, wkVars, lateVars>>

poll_nudge ==
    /\ \E c \in CRS, r \in Roles : PollCall(_nudge_key(c, r))
    /\ UNCHANGED <<busVars, edgeVars, wkVars, lateVars>>


IvIdle ==
    /\ kv = [k \in IvKeys |-> NoValue]
    /\ setSeq = 0
    /\ returns = [v \in 1..(MaxSets + 1) |-> 0]
    /\ lastOp = [op |-> "none", key |-> _intervention_key("cr1"), result |-> NoValue]

IvInit == IvIdle

IvNext == set_intervention \/ set_nudge \/ poll_intervention \/ poll_nudge

\* ------------------------------------------------------------ pipeline edges
\* A PipelineState is a dict: a function whose domain is the set of keys
\* that are present.
EmptyDict == [k \in {} |-> 0]

\* dict.get(key, default)
Get(d, key, default) == IF key \in DOMAIN d THEN d[key] ELSE default

\* truth value of state.get(key): a missing key yields None, which is falsy
GetFlag(d, key) == IF key \in DOMAIN d THEN d[key] ELSE FALSE

\* state.get("config_snapshot", {}).get("pipeline", {}).get(name, 3)
DEFAULT_MAX_LOOPS == 3
MaxLoopsDefault5(state, name) ==
    Get(Get(Get(state, "config_snapshot", EmptyDict), "pipeline", EmptyDict),
        name, 5)
MaxLoops(state, name) ==
    Get(Get(Get(state, "config_snapshot", EmptyDict), "pipeline", EmptyDict),
        name, DEFAULT_MAX_LOOPS)

after_verification_strict(state) ==
    IF GetFlag(state, "behaviour_verified") THEN "tdd"
    ELSE IF Get(state, "verification_loop_count", 0)
              > MaxLoops(state, "max_verification_loops") THEN "paused"
    ELSE "translation"
after_verification(state) ==
    IF GetFlag(state, "behaviour_verified") THEN "tdd"
    ELSE IF Get(state, "verification_loop_count", 0)
              >= MaxLoops(state, "max_verification_loops") THEN "paused"
    ELSE "translation"

after_review(state) ==
    IF GetFlag(state, "review_passed") THEN "rebase"
    ELSE IF Get(state, "review_loop_count", 0)
              >= MaxLoops(state, "max_review_dev_loops") THEN "paused"
    ELSE "tdd"

after_rebase(state) ==
    IF Get(state, "rebase_clean", TRUE) THEN "delivery" ELSE "paused"

\* the dicts with at most the key k, bound to a value of Vals
Opt(k, Vals) == {EmptyDict} \cup {k :> v : v \in Vals}

EdgeConfigs ==
    {EmptyDict, "config_snapshot" :> EmptyDict}
    \cup {"config_snapshot" :> ("pipeline" :> (mv @@ mr)) :
            mv \in Opt("max_verification_loops", 0..EdgeMaxCount),
            mr \in Opt("max_review_dev_loops", 0..EdgeMaxCount)}

EdgeStates ==
    {bv @@ vc @@ rp @@ rl @@ rc @@ cfg :
        bv \in Opt("behaviour_verified", BOOLEAN),
        vc \in Opt("verification_loop_count", 0..EdgeMaxCount),
        rp \in Opt("review_passed", BOOLEAN),
        rl \in Opt("review_loop_count", {0, DEFAULT_MAX_LOOPS, EdgeMaxCount}),
        rc \in Opt("rebase_clean", BOOLEAN),
        cfg \in EdgeConfigs}

CallAfterVerification ==
    /\ edgeFn = "none"
    /\ edgeFn' = "after_verification"
    /\ edgeLabel' = after_verification(edgeState)
    /\ UNCHANGED edgeState
    /\ UNCHANGED <<busVars, ivVars, wkVars, lateVars>>

CallAfterReview ==
    /\ edgeFn = "none"
    /\ edgeFn' = "after_review"
    /\ edgeLabel' = after_review(edgeState)
    /\ UNCHANGED edgeState
    /\ UNCHANGED <<busVars, ivVars, wkVars, lateVars>>

CallAfterRebase ==
    /\ edgeFn = "none"
    /\ edgeFn' = "after_rebase"
    /\ edgeLabel' = after_rebase(edgeState)
    /\ UNCHANGED edgeState
    /\ UNCHANGED <<busVars, ivVars, wkVars, lateVars>>

EdgeIdle ==
    /\ edgeState = EmptyDict
    /\ edgeFn = "none"
    /\ edgeLabel = "none"

EdgeInit ==
    /\ edgeState \in EdgeStates
    /\ edgeFn = "none"
    /\ edgeLabel = "none"

EdgeNext == CallAfterVerification \/ CallAfterReview \/ CallAfterRebase

\* ------------------------------------------------------------ pipeline state
\* fields with an operator.add reducer
ReducerKeys == {"cost_usd", "cost_input_tokens"}

\* the fields of PipelineState that the model carries
SchemaKeys == {"status", "error", "behaviour_verified", "verification_loop_count",
               "review_passed", "review_loop_count", "rebase_clean",
               "cost_usd", "cost_input_tokens", "config_snapshot",
               "all_delivered"}

\* the engine integrating an update: sum for reducer fields, last writer
\* wins for the others; keys that are no state field are dropped
MergeOverwrite(state, upd) ==
    [k \in DOMAIN state \cup (DOMAIN upd \cap SchemaKeys) |->
        IF k \in DOMAIN upd THEN upd[k] ELSE state[k]]
Merge(state, upd) ==
    [k \in DOMAIN state \cup (DOMAIN upd \cap SchemaKeys) |->
        IF k \in DOMAIN upd
        THEN IF k \in ReducerKeys /\ k \in DOMAIN state
             THEN state[k] + upd[k] ELSE upd[k]
        ELSE state[k]]

\* config/defaults.py: the snapshot the trigger route stores in the row
get_config_snapshot ==
    "pipeline" :> ("max_verification_loops" :> 3 @@ "max_review_dev_loops" :> 3)

\* ------------------------------------------------------------ pipeline nodes
\* what an agent-calling node hands back as cost: [tokens, usd]
CostUpdate(c) == "cost_input_tokens" :> c @@ "cost_usd" :> c

intake_node(state, ok, c) == CostUpdate(c)

repo_id_node(state, ok, c) == EmptyDict

worktree_setup_node(state, ok, c) == EmptyDict

behaviour_translation_node(state, ok, c) == CostUpdate(c)

behaviour_verification_node_keeps_count(state, ok, c) ==
    "behaviour_verified" :> ok
    @@ "verification_loop_count" :> Get(state, "verification_loop_count", 0)
    @@ CostUpdate(c)
behaviour_verification_node(state, ok, c) ==
    "behaviour_verified" :> ok
    @@ "verification_loop_count" :> (Get(state, "verification_loop_count", 0) + 1)
    @@ CostUpdate(c)

tdd_node(state, ok, c) == CostUpdate(c)

review_node(state, ok, c) ==
    "review_passed" :> ok
    @@ "review_loop_count" :> (Get(state, "review_loop_count", 0) + 1)
    @@ CostUpdate(c)

rebase_node(state, ok, c) ==
    "rebase_clean" :> ok @@ CostUpdate(c)
    @@ (IF ok THEN EmptyDict
        ELSE "status" :> "paused" @@ "error" :> "Unresolved rebase conflicts")

delivery_node(state, ok, c) == EmptyDict

release_gate_node(state, ok, c) == EmptyDict

release_node(state, ok, c) == EmptyDict

retrospective_node(state, ok, c) == "status" :> "completed"

_paused_node_with_error(state, ok, c) ==
    "status" :> "paused" @@ "error" :> "circuit breaker tripped"
_paused_node(state, ok, c) == "status" :> "paused"

NodeUpdate(n, state, ok, c) ==
    CASE n = "intake" -> intake_node(state, ok, c)
      [] n = "repo_id" -> repo_id_node(state, ok, c)
      [] n = "worktree_setup" -> worktree_setup_node(state, ok, c)
      [] n = "translation" -> behaviour_translation_node(state, ok, c)
      [] n = "verification" -> behaviour_verification_node(state, ok, c)
      [] n = "tdd" -> tdd_node(state, ok, c)
      [] n = "review" -> review_node(state, ok, c)
      [] n = "rebase" -> rebase_node(state, ok, c)
      [] n = "delivery" -> delivery_node(state, ok, c)
      [] n = "release_gate" -> release_gate_node(state, ok, c)
      [] n = "release" -> release_node(state, ok, c)
      [] n = "retrospective" -> retrospective_node(state, ok, c)
      [] n = "paused" -> _paused_node(state, ok, c)

\* nodes whose result depends on an agent verdict or on git
VerdictNodes == {"verification", "review", "rebase"}
\* nodes that call an agent and so add cost
AgentNodes == {"intake", "translation", "verification", "tdd", "review", "rebase"}

\* ------------------------------------------------------- events of a node
\* the stage tag a node emits its events under
StageTag(n) ==
    CASE n = "translation" -> "behaviour_translation"
      [] n = "verification" -> "behaviour_verification"
      [] OTHER -> n

\* the one repository of the run (worker/main.py builds affected_repos with
\* a single entry)
RepoName == "repo"

_REVIEWER_ROLES == <<"security_reviewer", "quality_reviewer",
                     "spec_compliance_reviewer">>

ReviewerSet == {_REVIEWER_ROLES[i] : i \in 1..Len(_REVIEWER_ROLES)}

\* f"review:{role}", f"behaviour_verification:{repo_name}"
SubStage(stage, role) == stage \o ":" \o role

\* agent_started, cost_update, agent_completed under one stage tag (the
\* tool_call / output events of the agent lie between agent_started and
\* cost_update and are left out)
AgentEvents(stage) ==
    << <<"agent_started", stage>>, <<"cost_update", stage>>,
       <<"agent_completed", stage>> >>

Entered(stage) == << <<"stage_entered", stage>> >>

Completed(stage) == << <<"stage_completed", stage>> >>

\* _run_single_reviewer up to the agent call, and from its return on
ReviewerStartEventsAgentOnly(role) ==
    << <<"agent_started", SubStage("review", role)>> >>
ReviewerStartEvents(role) ==
    << <<"stage_entered", SubStage("review", role)>>,
       <<"agent_started", SubStage("review", role)>> >>

ReviewerFinishEvents(role) ==
    << <<"agent_completed", SubStage("review", role)>>,
       <<"stage_completed", SubStage("review", role)>> >>

\* review_node after the gather: one cost_update per reviewer, one
\* review_finding per finding (a rejecting review has one blocking finding),
\* stage_completed
ReviewExitEvents(ok) ==
    [i \in 1..Len(_REVIEWER_ROLES) |->
        <<"cost_update", SubStage("review", _REVIEWER_ROLES[i])>>]
    \o (IF ok THEN <<>> ELSE << <<"review_finding", "review">> >>)
    \o Completed("review")

\* the events of the review node when the reviewers run one after the other
\* in the order of the gather call
ReviewEventsInOrder(ok) ==
    Entered("review")
    \o ReviewerStartEvents(_REVIEWER_ROLES[1]) \o ReviewerFinishEvents(_REVIEWER_ROLES[1])
    \o ReviewerStartEvents(_REVIEWER_ROLES[2]) \o ReviewerFinishEvents(_REVIEWER_ROLES[2])
    \o ReviewerStartEvents(_REVIEWER_ROLES[3]) \o ReviewerFinishEvents(_REVIEWER_ROLES[3])
    \o ReviewExitEvents(ok)

\* tdd_node for one repository whose tests pass at the first iteration
TddEvents ==
    Entered("tdd")
    \o Entered(SubStage("tdd", "test_writer"))
    \o AgentEvents(SubStage("tdd", "test_writer"))
    \o Completed(SubStage("tdd", "test_writer"))
    \o Entered(SubStage("tdd", "code_writer"))
    \o AgentEvents(SubStage("tdd", "code_writer"))
    \o << <<"test_run", SubStage("tdd", "code_writer")>> >>
    \o Completed(SubStage("tdd", "code_writer"))
    \o Completed("tdd")

\* the events a node emits between entry and return, in order; ok is the
\* verdict of the node (rebase: TRUE is a rebase without conflicts, FALSE one
\* whose conflicts the resolver agent could not settle)
NodeEvents(n, ok) ==
    CASE n \in {"intake", "translation"} ->
            Entered(StageTag(n)) \o AgentEvents(StageTag(n)) \o Completed(StageTag(n))
      [] n = "verification" ->
            Entered(StageTag(n)) \o AgentEvents(StageTag(n))
            \o Completed(SubStage(StageTag(n), RepoName))
            \o Completed(StageTag(n))
      [] n = "tdd" -> TddEvents
      [] n = "review" -> ReviewEventsInOrder(ok)
      [] n = "rebase" ->
            Entered("rebase")
            \o (IF ok THEN <<>> ELSE AgentEvents("rebase"))
            \o Completed("rebase")
      [] n = "retrospective" ->
            Entered("retrospective")
            \o << <<"pipeline_completed", "retrospective">> >>
      [] n = "paused" -> <<>>
      [] OTHER -> Entered(StageTag(n)) \o Completed(StageTag(n))

\* ------------------------------------------------------------ pipeline graph
build_pipeline_graph(n, state) ==
    CASE n = "intake" -> "repo_id"
      [] n = "repo_id" -> "worktree_setup"
      [] n = "worktree_setup" -> "translation"
      [] n = "translation" -> "verification"
      [] n = "verification" -> after_verification(state)
      [] n = "tdd" -> "review"
      [] n = "review" -> after_review(state)
      [] n = "rebase" -> after_rebase(state)
      [] n = "delivery" -> "release_gate"
      [] n = "release_gate" -> "release"
      [] n = "release" -> "retrospective"
      [] n = "retrospective" -> "END"
      [] n = "paused" -> "END"

\* -------------------------------------------------------------------- worker
PIPELINE_NODE_ORDER ==
    <<"intake", "repo_id", "worktree_setup", "translation", "verification",
      "tdd", "review", "rebase", "delivery", "release_gate", "release",
      "retrospective">>

OVERRIDE_NODE_MAP ==
    "rebase_clean" :> "rebase" @@ "review_passed" :> "review"
    @@ "behaviour_verified" :> "verification"

OrderIndex(n) == CHOOSE i \in 1..Len(PIPELINE_NODE_ORDER) : PIPELINE_NODE_ORDER[i] = n

_pick_resume_node_earliest(overrides) ==
    LET nodes == {OVERRIDE_NODE_MAP[k] : k \in DOMAIN overrides \cap DOMAIN OVERRIDE_NODE_MAP}
    IN  IF nodes = {} THEN "paused"
        ELSE CHOOSE n \in nodes : \A m \in nodes : OrderIndex(n) <= OrderIndex(m)
_pick_resume_node(overrides) ==
    LET nodes == {OVERRIDE_NODE_MAP[k] : k \in DOMAIN overrides \cap DOMAIN OVERRIDE_NODE_MAP}
    IN  IF nodes = {} THEN "paused"
        ELSE CHOOSE n \in nodes : \A m \in nodes : OrderIndex(m) <= OrderIndex(n)

\* "Build initial state"
initial_state ==
    "status" :> "running" @@ "cost_input_tokens" :> 0 @@ "cost_usd" :> 0
    @@ "config_snapshot" :> get_config_snapshot

NoCheckpoint == [values |-> EmptyDict, next |-> "none"]

\* the state_overrides a resume request may carry: none, one of the three
\* pass/fail flags, two of them, a control field, a key that is no state field
FlagOverrides ==
    {EmptyDict}
    \cup {k :> v : k \in DOMAIN OVERRIDE_NODE_MAP, v \in BOOLEAN}
    \cup {"behaviour_verified" :> TRUE @@ "review_passed" :> TRUE}
OverrideChoices ==
    FlagOverrides
    \cup {"status" :> v : v \in {"completed", "running"}}
    \cup {"unknown_key" :> TRUE}

TerminalEvent(status) ==
    CASE status = "paused" -> "pipeline_paused"
      [] status = "completed" -> "pipeline_completed"
      [] status = "failed" -> "pipeline_failed"
      [] OTHER -> "none"

Cr == "cr1"

\* entries appended to the CR's stream, ids consecutive
Emitted(evs) ==
    /\ clock' = clock + Len(evs)
    /\ streams' = [streams EXCEPT ![_stream_key(Cr)] =
          @ \o [i \in 1..Len(evs) |->
                   [id |-> clock + i, type |-> evs[i][1], stage |-> evs[i][2]]]]

\* run_worker up to the first node: load the row and set it running, open the
\* checkpointer (where the import or the setup fails the Worker runs without
\* one), emit pipeline_started, fetch-and-clear the overrides, choose the
\* resume branch
WorkerStart ==
    /\ wpc = "spawned"
    /\ \E ok \in {checkpointer} :
        LET state_overrides == overridesKey
            has_checkpoint == ok /\ ckpt.values # EmptyDict
            resume_node == _pick_resume_node(state_overrides)
            updated == Merge(ckpt.values, state_overrides)
            fresh == Merge(initial_state, state_overrides)
        IN
        /\ IF has_checkpoint /\ state_overrides # EmptyDict
           THEN /\ st' = updated
                /\ node' = build_pipeline_graph(resume_node, updated)
                /\ from' = resume_node
                /\ ckpt' = [values |-> st', next |-> node']
                /\ hist' = [hist EXCEPT !.overridden = TRUE, !.runV = 0, !.runR = 0,
                                        !.startedAt = node', !.exit = "none",
                                        !.finalStatus = "none", !.ran = {}]
           ELSE IF has_checkpoint
           THEN /\ st' = ckpt.values
                /\ node' = ckpt.next
                /\ UNCHANGED <<from, ckpt>>
                /\ hist' = [hist EXCEPT !.runV = 0, !.runR = 0,
                                        !.startedAt = node', !.exit = "none",
                                        !.finalStatus = "none", !.ran = {}]
           ELSE /\ st' = fresh
                /\ node' = "intake"
                /\ from' = "START"
                /\ ckpt' = IF ok THEN [values |-> st', next |-> node'] ELSE ckpt
                /\ hist' = [hist EXCEPT !.overridden = FALSE, !.runV = 0, !.runR = 0,
                                        !.startedAt = "intake", !.exit = "none",
                                        !.finalStatus = "none", !.ran = {}]
    /\ rdb' = [rdb EXCEPT !.status = "running"]
    /\ overridesKey' = EmptyDict
    /\ Emitted(<< <<"pipeline_started", "worker">> >>)
    /\ wpc' = "graph"
    /\ UNCHANGED checkpointer
    /\ UNCHANGED <<clientVars, ivVars, edgeVars, lateVars>>

\* node n returns with verdict ok and cost c after emitting evs: the engine
\* merges its update, evaluates the outgoing edge and writes the checkpoint
ApplyNode(n, ok, c, evs) ==
    /\ st' = Merge(st, NodeUpdate(n, st, ok, c))
    /\ node' = build_pipeline_graph(n, st')
    /\ from' = n
    /\ ckpt' = IF checkpointer THEN [values |-> st', next |-> node'] ELSE ckpt
    /\ hist' = [hist EXCEPT !.executed = @ \cup {n}, !.ran = @ \cup {n},
                            !.runV = IF n = "verification" THEN @ + 1 ELSE @,
                            !.runR = IF n = "review" THEN @ + 1 ELSE @]
    /\ Emitted(evs)

\* the pipeline_* events among evs
IsPipelineEvent(e) ==
    e[1] \in {"pipeline_started", "pipeline_completed", "pipeline_failed",
              "pipeline_paused"}

PipelineLevel(evs) == SelectSeq(evs, IsPipelineEvent)

\* one node of the graph runs to completion. Under Spec the stream keeps the
\* pipeline_* events only (the projection its properties read); SpecStages
\* keeps every event of a run.
NodeStep ==
    /\ wpc = "graph"
    /\ node # "END"
    /\ \E ok \in (IF node \in VerdictNodes THEN BOOLEAN ELSE {TRUE}),
          c \in (IF node \in AgentNodes
                 THEN {x \in {0, 1} : Get(st, "cost_usd", 0) + x <= MaxCost}
                 ELSE {0}) :
        ApplyNode(node, ok, c, PipelineLevel(NodeEvents(node, ok)))
    /\ UNCHANGED <<rdb, overridesKey, wpc, checkpointer>>
    /\ UNCHANGED <<clientVars, ivVars, edgeVars, lateVars>>

\* "Update CR run status": the graph returned its final state
PersistFinal ==
    /\ wpc = "graph"
    /\ node = "END"
    /\ LET final_status == Get(st, "status", "completed") IN
        /\ rdb' = [status |-> final_status,
                   cost_usd |-> Get(st, "cost_usd", 0),
                   error |-> Get(st, "error", "None")]
        /\ hist' = [hist EXCEPT !.finalStatus = final_status]
    /\ wpc' = "emit"
    /\ UNCHANGED <<overridesKey, ckpt, checkpointer, st, node, from>>
    /\ UNCHANGED <<busVars, ivVars, edgeVars, lateVars>>

\* "Emit terminal event so the frontend updates status"
EmitTerminalAlwaysCompleted(final_status) ==
    << <<"pipeline_completed", "worker">> >>
EmitTerminal(final_status) ==
    IF TerminalEvent(final_status) = "none" THEN <<>>
    ELSE << <<TerminalEvent(final_status), "worker">> >>

EmitFinal ==
    /\ wpc = "emit"
    /\ Emitted(EmitTerminal(hist.finalStatus))
    /\ hist' = [hist EXCEPT !.exit = "final"]
    /\ wpc' = "exited"
    /\ UNCHANGED <<rdb, overridesKey, ckpt, checkpointer, st, node, from>>
    /\ UNCHANGED <<clientVars, ivVars, edgeVars, lateVars>>

\* an exception inside the try block: a node that calls an agent raises
\* (provider failure), the final update of the row raises, or the terminal
\* emit raises after the row was updated; nothing of the raising step is
\* applied
Raise ==
    /\ \/ wpc = "graph" /\ node \in AgentNodes \cup {"END"}
       \/ wpc = "emit"
    /\ wpc' = "handler"
    /\ UNCHANGED <<rdb, overridesKey, ckpt, checkpointer, st, node, from, hist>>
    /\ UNCHANGED <<busVars, ivVars, edgeVars, lateVars>>

\* except Exception: emit pipeline_failed, persist status = failed
HandleException ==
    /\ wpc = "handler"
    /\ Emitted(<< <<"pipeline_failed", "worker">> >>)
    /\ rdb' = [rdb EXCEPT !.status = "failed", !.error = "exception"]
    /\ hist' = [hist EXCEPT !.exit = "exception"]
    /\ wpc' = "exited"
    /\ UNCHANGED <<overridesKey, ckpt, checkpointer, st, node, from>>
    /\ UNCHANGED <<clientVars, ivVars, edgeVars, lateVars>>

\* if cr_run.status not in ("paused", "failed"): raise HTTPException(409)
ResumableStatusesWithCompleted == {"paused", "failed", "completed"}
ResumableStatuses == {"paused", "failed"}

\* which circuit breaker ended the last graph run in the paused node
TrippedBreaker ==
    IF ~(rdb.status = "paused" /\ from = "paused" /\ node = "END") THEN "none"
    ELSE IF "review_passed" \in DOMAIN st /\ ~st["review_passed"] THEN "review"
    ELSE IF "behaviour_verified" \in DOMAIN st /\ ~st["behaviour_verified"]
         THEN "verification"
    ELSE "none"

\* POST /pipeline/{cr_id}/resume, accepted: store the overrides, set the row
\* running, spawn a Worker, emit pipeline_started
resume_pipeline ==
    /\ wpc = "exited"
    /\ hist.resumes < MaxResumes
    /\ rdb.status \in ResumableStatuses
    /\ \E ov \in OverrideChoices :
        /\ overridesKey' = IF ov # EmptyDict THEN ov ELSE overridesKey
        /\ hist' = [hist EXCEPT !.resumes = @ + 1, !.startedFor = rdb.status,
                                !.resumedWith = ov, !.breaker = TrippedBreaker,
                                !.response = 200]
    /\ rdb' = [rdb EXCEPT !.status = "running", !.error = "None"]
    /\ wpc' = "spawned"
    /\ Emitted(<< <<"pipeline_started", "controller">> >>)
    /\ UNCHANGED <<ckpt, checkpointer, st, node, from>>
    /\ UNCHANGED <<clientVars, ivVars, edgeVars, lateVars>>

\* no reviewer task exists
GatherIdle == gather = [r \in ReviewerSet |-> "idle"]

PickIdle == pickIn = EmptyDict /\ pickOut = "none"

ToolIdle ==
    /\ toolBackend = "none"
    /\ toolName = "none"
    /\ toolInput = EmptyDict
    /\ toolFault = FALSE
    /\ toolOut = <<>>
    /\ toolTouched = {}
    /\ toolRaised = FALSE

CmdIdle ==
    /\ cmdIn = <<>>
    /\ cmdStatus = "none"
    /\ cmdStored = <<>>
    /\ cmdRow = FALSE

ChainIdle ==
    /\ chNatural = "unknown"
    /\ chRegistry = {}
    /\ chConfig = <<>>
    /\ chOrder = <<>>
    /\ chIdx = 0
    /\ chPc = "none"
    /\ chCalls = <<>>
    /\ chFailed = {}
    /\ chLastError = "None"
    /\ chResult = "none"

RetryIdle ==
    /\ rtSite = "none"
    /\ rtAttempt = 0
    /\ rtPc = "none"
    /\ rtErrors = <<>>
    /\ rtWaits = <<>>
    /\ rtRaised = "none"

PhaseIdle ==
    /\ phTask = [model |-> "", explore_model |-> "", plan_model |-> "",
                 on_event |-> FALSE]
    /\ phPhase = "none"
    /\ phStep = "none"
    /\ phRound = 0
    /\ phLoop = [input |-> 0, output |-> 0]
    /\ phTotal = [input |-> 0, output |-> 0, cost |-> 0]
    /\ phSummary = ""
    /\ phPlan = ""
    /\ phTrace = <<>>

SseIdle ==
    /\ sseFrom = 0
    /\ sseSeen = -1
    /\ sseGone = FALSE

RvIdle ==
    /\ rvRepos = 0
    /\ rvLoop = 0
    /\ rvPc = "none"
    /\ rvOut = [r \in ReviewerSet |-> [status |-> "idle", raw |-> <<>>,
                                       findings |-> <<>>]]
    /\ rvResults = <<>>
    /\ rvUpdate = [review_passed |-> FALSE, review_loop_count |-> -1]
    /\ rvCompleted = FALSE

TdIdle ==
    /\ tdNode = "none"
    /\ tdRepos = 0
    /\ tdMax = 0
    /\ tdLoop = 0
    /\ tdRepo = 0
    /\ tdIter = 0
    /\ tdPc = "none"
    /\ tdTrace = <<>>
    /\ tdUpdate = -1

RbIdle ==
    /\ rbRepos = 0
    /\ rbRepo = 0
    /\ rbPc = "none"
    /\ rbAttempt = 0
    /\ rbContinued = FALSE
    /\ rbClean = TRUE
    /\ rbConflicts = <<>>
    /\ rbCalls = <<>>
    /\ rbEnd = <<>>
    /\ rbUpdate = <<>>

DlIdle ==
    /\ dlRepos = 0
    /\ dlRepo = 0
    /\ dlPc = "none"
    /\ dlResults = <<>>
    /\ dlState = EmptyDict
    /\ dlNode = "none"
    /\ dlPath = <<>>
    /\ dlFinal = "none"

NgIdle ==
    /\ ngBackend = "none"
    /\ ngMax = 0
    /\ ngOnEvent = FALSE
    /\ ngPoller = FALSE
    /\ ngRound = 0
    /\ ngPc = "none"
    /\ ngMessages = <<>>
    /\ ngSent = {}
    /\ ngKey = 0
    /\ ngSet = 0
    /\ ngConsumed = <<>>
    /\ ngEvents = <<>>
    /\ ngPolls = 0
    /\ ngToolRounds = 0

OfIdle ==
    /\ ofLoop = "none"
    /\ ofOffered = {}
    /\ ofMax = 0
    /\ ofRound = 0
    /\ ofPc = "none"
    /\ ofCalls = <<>>

RrIdle ==
    /\ rrStatus = "none"
    /\ rrPc = <<>>
    /\ rrResponse = <<>>
    /\ rrSpawned = 0
    /\ rrRunning = 0
    /\ rrOverlap = FALSE

AgentIdle == PickIdle /\ ToolIdle /\ CmdIdle /\ ChainIdle /\ RetryIdle /\ PhaseIdle /\ SseIdle /\ RvIdle /\ TdIdle /\ RbIdle /\ DlIdle /\ NgIdle /\ OfIdle /\ RrIdle

LateIdle == GatherIdle /\ AgentIdle

\* POST /pipeline/{cr_id}/resume, refused: 409, nothing is written
resume_rejected ==
    /\ wpc # "none"
    /\ rdb.status \notin ResumableStatuses
    /\ hist.response # 409
    /\ hist' = [hist EXCEPT !.response = 409]
    /\ UNCHANGED <<rdb, overridesKey, ckpt, wpc, checkpointer, st, node, from>>
    /\ UNCHANGED <<busVars, ivVars, edgeVars, lateVars>>

\* the Worker process dies while the graph runs (kill, out of memory, node
\* loss): no handler runs, the row and the stream stay as they are
Crash ==
    /\ wpc = "graph"
    /\ node # "END"
    /\ wpc' = "crashed"
    /\ UNCHANGED <<rdb, overridesKey, ckpt, checkpointer, st, node, from, hist>>
    /\ UNCHANGED <<busVars, ivVars, edgeVars, lateVars>>

WkIdle ==
    /\ rdb = [status |-> "pending", cost_usd |-> 0, error |-> "None"]
    /\ overridesKey = EmptyDict
    /\ ckpt = NoCheckpoint
    /\ wpc = "none"
    /\ checkpointer = FALSE
    /\ st = EmptyDict
    /\ node = "none"
    /\ from = "none"
    /\ hist = [executed |-> {}, runV |-> 0, runR |-> 0, resumes |-> 0,
               overridden |-> FALSE, startedFor |-> "none", startedAt |-> "none",
               exit |-> "none", finalStatus |-> "none",
               ran |-> {}, resumedWith |-> EmptyDict, breaker |-> "none",
               response |-> 0]

\* the state after POST /pipeline/trigger: row pending, one Worker spawned
Init ==
    /\ rdb = [status |-> "pending", cost_usd |-> 0, error |-> "None"]
    /\ overridesKey = EmptyDict
    /\ ckpt = NoCheckpoint
    /\ wpc = "spawned"
    /\ checkpointer \in BOOLEAN
    /\ st = EmptyDict
    /\ node = "none"
    /\ from = "none"
    /\ hist = [executed |-> {}, runV |-> 0, runR |-> 0, resumes |-> 0,
               overridden |-> FALSE, startedFor |-> "pending", startedAt |-> "none",
               exit |-> "none", finalStatus |-> "none",
               ran |-> {}, resumedWith |-> EmptyDict, breaker |-> "none",
               response |-> 0]
    /\ BusIdle /\ IvIdle /\ EdgeIdle /\ LateIdle

Next ==
    \/ WorkerStart
    \/ NodeStep
    \/ PersistFinal
    \/ EmitFinal
    \/ Raise
    \/ HandleException
    \/ resume_pipeline
    \/ resume_rejected
    \/ Crash

Spec == Init /\ [][Next]_vars

\* the graph engine runs a node whenever one is due
FairSpec == Spec /\ WF_vars(NodeStep)

\* ---------------------------------------------- one fresh run, event by event
\* a node other than review runs to completion
StageStep ==
    /\ wpc = "graph"
    /\ node \notin {"END", "review"}
    /\ \E ok \in (IF node \in VerdictNodes THEN BOOLEAN ELSE {TRUE}) :
        ApplyNode(node, ok, 0, NodeEvents(node, ok))
    /\ UNCHANGED <<rdb, overridesKey, wpc, checkpointer>>
    /\ UNCHANGED <<clientVars, ivVars, edgeVars, lateVars>>

\* review_node up to asyncio.gather: stage_entered, then three reviewer tasks
ReviewEnter ==
    /\ wpc = "graph"
    /\ node = "review"
    /\ \A r \in ReviewerSet : gather[r] = "idle"
    /\ Emitted(Entered("review"))
    /\ gather' = [r \in ReviewerSet |-> "pending"]
    /\ UNCHANGED <<wkVars, clientVars, ivVars, edgeVars, agentVars>>

\* _run_single_reviewer starts: stage_entered and agent_started of its sub-stage
ReviewerStart ==
    /\ \E r \in ReviewerSet :
        /\ gather[r] = "pending"
        /\ Emitted(ReviewerStartEvents(r))
        /\ gather' = [gather EXCEPT ![r] = "started"]
    /\ UNCHANGED <<wkVars, clientVars, ivVars, edgeVars, agentVars>>

\* its agent returned: agent_completed and stage_completed of its sub-stage
ReviewerFinish ==
    /\ \E r \in ReviewerSet :
        /\ gather[r] = "started"
        /\ Emitted(ReviewerFinishEvents(r))
        /\ gather' = [gather EXCEPT ![r] = "done"]
    /\ UNCHANGED <<wkVars, clientVars, ivVars, edgeVars, agentVars>>

\* the gather returned: merge the findings, emit, return the verdict; the
\* reviewers reject at most MaxRejects times in one behaviour
ReviewExit ==
    /\ wpc = "graph"
    /\ node = "review"
    /\ \A r \in ReviewerSet : gather[r] = "done"
    /\ \E ok \in (IF hist.runR < MaxRejects THEN BOOLEAN ELSE {TRUE}) :
        ApplyNode("review", ok, 0, ReviewExitEvents(ok))
    /\ gather' = [r \in ReviewerSet |-> "idle"]
    /\ UNCHANGED <<rdb, overridesKey, wpc, checkpointer>>
    /\ UNCHANGED <<clientVars, ivVars, edgeVars, agentVars>>

\* a Worker with a checkpointer, spawned by the trigger route
SpecStagesInit == Init /\ checkpointer

StagesNext ==
    \/ WorkerStart
    \/ StageStep
    \/ ReviewEnter
    \/ ReviewerStart
    \/ ReviewerFinish
    \/ ReviewExit
    \/ PersistFinal
    \/ EmitFinal

SpecStages == SpecStagesInit /\ [][StagesNext]_vars

\* ------------------------------------------------- _pick_resume_node alone
\* keys a resume request may carry: the three flags and two that map to no node
PickKeys == DOMAIN OVERRIDE_NODE_MAP \cup {"unknown_key", "another"}

\* every override map over these keys with boolean values
PickInputs == UNION {[K -> BOOLEAN] : K \in SUBSET PickKeys}

CallPickResumeNode ==
    /\ pickOut = "none"
    /\ pickOut' = _pick_resume_node(pickIn)
    /\ UNCHANGED <<pickIn, coreVars, exceptPick>>

SpecPickInit ==
    /\ pickIn \in PickInputs
    /\ pickOut = "none"
    /\ BusIdle /\ IvIdle /\ EdgeIdle /\ WkIdle /\ GatherIdle /\ ToolIdle /\ CmdIdle /\ ChainIdle
    /\ RrIdle
    /\ OfIdle
    /\ NgIdle
    /\ DlIdle
    /\ RbIdle
    /\ TdIdle
    /\ RvIdle
    /\ SseIdle
    /\ PhaseIdle
    /\ RetryIdle

PickNext == CallPickResumeNode

SpecPick == SpecPickInit /\ [][PickNext]_vars

\* ------------------------------------------------------ the tool executor
\* a small file system: the working directory /w with a file, a directory
\* and a symlink that leads out of it; /etc/passwd outside
WorkingDir == <<"w">>

Dirs == {<<>>, <<"w">>, <<"w", "sub">>, <<"etc">>}

Files == {<<"w", "a.txt">>, <<"etc", "passwd">>}

Symlinks == <<"w", "link">> :> <<"etc">>

\* Path.resolve(): "." dropped, ".." pops, symlinks followed
RECURSIVE Resolve(_, _)
Resolve(cur, rest) ==
    IF rest = <<>> THEN cur
    ELSE LET c == Head(rest)
             nxt == IF c = "." THEN cur
                    ELSE IF c = ".."
                         THEN (IF cur = <<>> THEN <<>> ELSE SubSeq(cur, 1, Len(cur) - 1))
                    ELSE IF Append(cur, c) \in DOMAIN Symlinks
                         THEN Symlinks[Append(cur, c)]
                    ELSE Append(cur, c)
         IN  Resolve(nxt, Tail(rest))

\* the file the operating system reaches for Path(working_dir) / user_path
\* (an absolute user path replaces the left side)
Reach(dir, user) ==
    IF user # <<>> /\ Head(user) = "/" THEN Resolve(<<>>, Tail(user))
    ELSE Resolve(dir, user)

\* resolved.is_relative_to(root)
is_relative_to(path, root) ==
    Len(path) >= Len(root) /\ SubSeq(path, 1, Len(root)) = root

\* path.parent.mkdir(parents=True): the directories it creates
MissingParents(path) ==
    {SubSeq(path, 1, n) : n \in 0..(Len(path) - 1)} \ Dirs

\* how the body of the try block ends: with a return value or an exception
Result(out, touched) == [exc |-> "none", msg |-> out, touched |-> touched]

Raised(exc, msg, touched) == [exc |-> exc, msg |-> <<msg>>, touched |-> touched]

Err(text) == <<"Error", text>>

\* the body of the try block; checked is TRUE where _safe_resolve guards
\* the path, killed is TRUE where the timeout is caught around communicate()
ToolBody(name, input, fault, checked, killed) ==
    LET escapes(user) == checked /\ ~is_relative_to(Reach(WorkingDir, user), WorkingDir)
        PathEscapes == Raised("ValueError", "Path escapes working directory", {})
    IN
    CASE name = "read_file" ->
            IF "path" \notin DOMAIN input THEN Raised("KeyError", "'path'", {})
            ELSE IF escapes(input["path"]) THEN PathEscapes
            ELSE IF Reach(WorkingDir, input["path"]) \notin Files
                 THEN Result(Err(": File not found"), {})
            ELSE IF fault
                 THEN Raised("OSError", "I/O error", {Reach(WorkingDir, input["path"])})
            ELSE Result(<<"content">>, {Reach(WorkingDir, input["path"])})
      [] name = "write_file" ->
            IF "path" \notin DOMAIN input THEN Raised("KeyError", "'path'", {})
            ELSE IF escapes(input["path"]) THEN PathEscapes
            ELSE LET r == Reach(WorkingDir, input["path"]) IN
                 IF "content" \notin DOMAIN input
                 THEN Raised("KeyError", "'content'", MissingParents(r))
                 ELSE IF fault \/ r \in Dirs
                 THEN Raised("OSError", "I/O error", MissingParents(r))
                 ELSE Result(<<"File written">>, MissingParents(r) \cup {r})
      [] name = "list_directory" ->
            LET user == IF "path" \in DOMAIN input THEN input["path"] ELSE <<".">> IN
            IF escapes(user) THEN PathEscapes
            ELSE IF Reach(WorkingDir, user) \notin Dirs
                 THEN Result(Err(": Not a directory"), {})
            ELSE IF fault
                 THEN Raised("OSError", "I/O error", {Reach(WorkingDir, user)})
            ELSE Result(<<"listing">>, {Reach(WorkingDir, user)})
      [] name = "run_command" ->
            IF "command" \notin DOMAIN input THEN Raised("KeyError", "'command'", {})
            ELSE IF input["command"] = "timeout"
                 THEN (IF killed
                       THEN Result(Err(": Command timed out after 120s (process killed)"), {})
                       ELSE Raised("TimeoutError", "", {}))
            ELSE Result(<<"Exit code: ", input["command"]>>, {})
      [] OTHER -> Result(Err(": Unknown tool"), {})

\* the exception classes "except Exception" catches
ExceptionOnlyOSError == {"OSError"}
Exception == {"KeyError", "ValueError", "OSError", "TimeoutError"}

\* except Exception as e: return f"Error executing {name}: {e}"
ExceptException(name, b) ==
    IF b.exc = "none" THEN [out |-> b.msg, touched |-> b.touched, raised |-> FALSE]
    ELSE IF b.exc \in Exception
         THEN [out |-> <<"Error", " executing ", name, ": ">> \o b.msg,
               touched |-> b.touched, raised |-> FALSE]
    ELSE [out |-> <<>>, touched |-> b.touched, raised |-> TRUE]

\* except ValueError as e: return f"Error: {e}"
ExceptValueError(b) ==
    IF b.exc = "ValueError" THEN Result(<<"Error", ": ">> \o b.msg, b.touched) ELSE b

\* agent/claude.py
_execute_tool(name, input, fault) ==
    ExceptException(name, ExceptValueError(ToolBody(name, input, fault, TRUE, TRUE)))

\* agent/tools.py, used by the Gemini backend
execute_tool(name, input, fault) ==
    ExceptException(name, ToolBody(name, input, fault, FALSE, FALSE))

ToolNames == {"read_file", "write_file", "list_directory", "run_command", "no_such_tool"}

UserPaths ==
    {<<"a.txt">>, <<"sub">>, <<".">>, <<"missing.txt">>, <<"sub", "..", "a.txt">>,
     <<"new", "f.txt">>, <<"..", "etc", "passwd">>, <<"..", "etc">>,
     <<"..", "out.txt">>, <<"link">>, <<"link", "passwd">>, <<"/", "etc", "passwd">>}

ToolInputs ==
    {EmptyDict}
    \cup {"path" :> p : p \in UserPaths}
    \cup {"path" :> p @@ "content" :> "text" : p \in UserPaths}
    \cup {"command" :> c : c \in {"0", "1", "timeout"}}

\* the call has come back to the agent loop, with a string or an exception
ToolCalled == toolOut # <<>> \/ toolRaised

ToolReturn(r) ==
    /\ toolOut' = r.out
    /\ toolTouched' = r.touched
    /\ toolRaised' = r.raised
    /\ UNCHANGED <<toolBackend, toolName, toolInput, toolFault>>
    /\ UNCHANGED <<coreVars, exceptTool>>

ClaudeExecuteTool ==
    /\ toolBackend = "claude"
    /\ ~ToolCalled
    /\ ToolReturn(_execute_tool(toolName, toolInput, toolFault))

GeminiExecuteTool ==
    /\ toolBackend = "gemini"
    /\ ~ToolCalled
    /\ ToolReturn(execute_tool(toolName, toolInput, toolFault))

SpecToolsInit ==
    /\ toolBackend \in {"claude", "gemini"}
    /\ toolName \in ToolNames
    /\ toolInput \in ToolInputs
    /\ toolFault \in BOOLEAN
    /\ toolOut = <<>>
    /\ toolTouched = {}
    /\ toolRaised = FALSE
    /\ BusIdle /\ IvIdle /\ EdgeIdle /\ WkIdle /\ GatherIdle /\ PickIdle /\ CmdIdle /\ ChainIdle
    /\ RrIdle
    /\ OfIdle
    /\ NgIdle
    /\ DlIdle
    /\ RbIdle
    /\ TdIdle
    /\ RvIdle
    /\ SseIdle
    /\ PhaseIdle
    /\ RetryIdle

ToolsNext == ClaudeExecuteTool \/ GeminiExecuteTool

SpecTools == SpecToolsInit /\ [][ToolsNext]_vars

\* -------------------------------------------- test_command validation
\* A command is a sequence of symbols: words that stand for themselves, "x"
\* for any other run of word characters, "backtick" for the backquote
\* character, and single characters.
Whitespace == {" ", "\n"}

CmdSymbols ==
    {"pytest", "npm", "test", "x", " ", "\n", ";", "|", "backtick", "$", "(", "&", ">", "<"}

\* two entries of the allow-list: one of a single word, one with a space
_ALLOWED_TEST_COMMANDS == {<<"pytest">>, <<"npm", " ", "test">>}

\* str.strip()
RECURSIVE lstrip(_)
lstrip(v) == IF v # <<>> /\ Head(v) \in Whitespace THEN lstrip(Tail(v)) ELSE v

RECURSIVE rstrip(_)
rstrip(v) ==
    IF v # <<>> /\ v[Len(v)] \in Whitespace THEN rstrip(SubSeq(v, 1, Len(v) - 1)) ELSE v

strip(v) == rstrip(lstrip(v))

\* _SHELL_METACHAR_RE.search(v): one of ; | backtick newline, or $( or &&
\* or || or > or >> or <
_SHELL_METACHAR_RE_single_only(v) ==
    \E i \in 1..Len(v) : v[i] \in {";", "|", "backtick", "\n", ">", "<"}
_SHELL_METACHAR_RE(v) ==
    \E i \in 1..Len(v) :
        \/ v[i] \in {";", "|", "backtick", "\n"}
        \/ i < Len(v) /\ v[i] = "$" /\ v[i + 1] = "("
        \/ i < Len(v) /\ v[i] = "&" /\ v[i + 1] = "&"
        \/ v[i] = ">"
        \/ v[i] = "<"

\* str.startswith
startswith(v, prefix) ==
    Len(v) >= Len(prefix) /\ SubSeq(v, 1, Len(prefix)) = prefix

\* RawChangeRequest.validate_test_command: the value stored, or a ValueError
validate_test_command(raw) ==
    LET v == strip(raw) IN
    IF v = <<>> THEN [ok |-> TRUE, value |-> <<"pytest">>]
    ELSE IF _SHELL_METACHAR_RE(v) THEN [ok |-> FALSE, value |-> <<>>]
    ELSE IF \E allowed \in _ALLOWED_TEST_COMMANDS :
                v = allowed \/ startswith(v, Append(allowed, " "))
         THEN [ok |-> TRUE, value |-> v]
    ELSE [ok |-> FALSE, value |-> <<>>]

\* every command of at most MaxCmdLen symbols
CmdInputs == UNION {[1..n -> CmdSymbols] : n \in 0..MaxCmdLen}

\* POST /pipeline/trigger: the body is validated before the handler runs; a
\* valid request creates the CR row
trigger_pipeline ==
    /\ cmdStatus = "none"
    /\ LET r == validate_test_command(cmdIn) IN
        /\ cmdStatus' = IF r.ok THEN "accepted" ELSE "rejected"
        /\ cmdRow' = r.ok
        /\ cmdStored' = r.value
    /\ UNCHANGED <<cmdIn, coreVars, exceptCmd>>

SpecCmdInit ==
    /\ cmdIn \in CmdInputs
    /\ cmdStatus = "none"
    /\ cmdStored = <<>>
    /\ cmdRow = FALSE
    /\ BusIdle /\ IvIdle /\ EdgeIdle /\ WkIdle /\ GatherIdle /\ PickIdle /\ ToolIdle /\ ChainIdle
    /\ RrIdle
    /\ OfIdle
    /\ NgIdle
    /\ DlIdle
    /\ RbIdle
    /\ TdIdle
    /\ RvIdle
    /\ SseIdle
    /\ PhaseIdle
    /\ RetryIdle

CmdNext == trigger_pipeline

SpecCmd == SpecCmdInit /\ [][CmdNext]_vars

\* ------------------------------------------------------- provider chain
Providers == {"anthropic", "gemini", "openai"}

Range(q) == {q[i] : i \in 1..Len(q)}

\* the loop of _resolve_order over config.chain
RECURSIVE ChainLoop(_, _, _, _)
ChainLoop(chain, registry, seen, order) ==
    IF chain = <<>> THEN order
    ELSE LET p == Head(chain) IN
         IF p \notin seen /\ p \in registry
         THEN ChainLoop(Tail(chain), registry, seen \cup {p}, Append(order, p))
         ELSE ChainLoop(Tail(chain), registry, seen, order)

_resolve_order_chain_only(natural, registry, chain) ==
    ChainLoop(chain, registry, {}, <<>>)
_resolve_order(natural, registry, chain) ==
    IF natural \in registry
    THEN ChainLoop(chain, registry, {natural}, <<natural>>)
    ELSE ChainLoop(chain, registry, {}, <<>>)

\* providers = self._resolve_order(task.model)
ChainStart ==
    /\ chPc = "start"
    /\ chOrder' = _resolve_order(chNatural, chRegistry, chConfig)
    /\ chIdx' = 1
    /\ chPc' = "loop"
    /\ UNCHANGED <<chNatural, chRegistry, chConfig, chCalls, chFailed,
                   chLastError, chResult>>
    /\ UNCHANGED <<coreVars, exceptChain>>

\* one round of the for loop: skip a provider without backend, else invoke
\* its backend, which returns a result or raises
ChainTry ==
    /\ chPc = "loop"
    /\ chIdx <= Len(chOrder)
    /\ LET provider_name == chOrder[chIdx] IN
        IF provider_name \notin chRegistry
        THEN /\ chIdx' = chIdx + 1
             /\ UNCHANGED <<chPc, chCalls, chFailed, chLastError, chResult>>
        ELSE \E ok \in BOOLEAN :
            /\ chCalls' = Append(chCalls, provider_name)
            /\ IF ok
               THEN /\ chResult' = provider_name
                    /\ chPc' = "returned"
                    /\ UNCHANGED <<chIdx, chFailed, chLastError>>
               ELSE /\ chLastError' = provider_name
                    /\ chFailed' = chFailed \cup {provider_name}
                    /\ chIdx' = chIdx + 1
                    /\ UNCHANGED <<chPc, chResult>>
    /\ UNCHANGED <<chNatural, chRegistry, chConfig, chOrder>>
    /\ UNCHANGED <<coreVars, exceptChain>>

\* raise RuntimeError("All providers exhausted ... Last error: {last_error}")
ChainExhausted ==
    /\ chPc = "loop"
    /\ chIdx > Len(chOrder)
    /\ chPc' = "raised"
    /\ UNCHANGED <<chNatural, chRegistry, chConfig, chOrder, chIdx, chCalls,
                   chFailed, chLastError, chResult>>
    /\ UNCHANGED <<coreVars, exceptChain>>

SpecChainInit ==
    /\ chNatural \in Providers \cup {"unknown"}
    /\ chRegistry \in SUBSET Providers
    /\ chConfig \in UNION {[1..n -> Providers] : n \in 0..MaxChainLen}
    /\ chOrder = <<>>
    /\ chIdx = 0
    /\ chPc = "start"
    /\ chCalls = <<>>
    /\ chFailed = {}
    /\ chLastError = "None"
    /\ chResult = "none"
    /\ BusIdle /\ IvIdle /\ EdgeIdle /\ WkIdle /\ GatherIdle /\ PickIdle /\ ToolIdle
    /\ RrIdle
    /\ OfIdle
    /\ NgIdle
    /\ DlIdle
    /\ RbIdle
    /\ TdIdle
    /\ RvIdle
    /\ SseIdle
    /\ PhaseIdle
    /\ RetryIdle
    /\ CmdIdle

ChainNext == ChainStart \/ ChainTry \/ ChainExhausted

SpecChain == SpecChainInit /\ [][ChainNext]_vars

\* ------------------------------------------------- rate-limit retry loops
_RATE_LIMIT_MAX_RETRIES == 5

RetrySites == {"tool_loop", "plan_call", "gemini"}

\* _RATE_LIMIT_BASE_WAIT of agent/claude.py and of agent/gemini.py, seconds
_RATE_LIMIT_BASE_WAIT(site) == IF site = "gemini" THEN 30 ELSE 60

\* what a provider call can raise.  For the Anthropic client the class of
\* the exception decides; for Gemini the lowered text, given here by the
\* marker it contains
ProviderErrors(site) ==
    IF site = "gemini"
    THEN {"429", "resource exhausted", "rate", "internal error", "timeout"}
    ELSE {"RateLimitError", "APIStatusError", "APIConnectionError"}

\* except anthropic.RateLimitError / is_rate_limit
is_rate_limit(site, e) ==
    IF site = "gemini"
    THEN e \in {"429", "resource exhausted", "rate"}
    ELSE e = "RateLimitError"

wait_constant(site, attempt) == _RATE_LIMIT_BASE_WAIT(site)
wait(site, attempt) == _RATE_LIMIT_BASE_WAIT(site) * (attempt + 1)

\* one pass of the for loop up to the sleep: the call answers (break /
\* return) or raises; the handler re-raises or computes the wait
RetryCall ==
    /\ rtPc = "call"
    /\ rtAttempt < _RATE_LIMIT_MAX_RETRIES
    /\ \/ /\ rtPc' = "returned"
          /\ UNCHANGED <<rtErrors, rtWaits, rtRaised>>
       \/ \E e \in ProviderErrors(rtSite) :
            /\ rtErrors' = Append(rtErrors, e)
            /\ IF \/ ~is_rate_limit(rtSite, e)
                  \/ rtAttempt = _RATE_LIMIT_MAX_RETRIES - 1
               THEN /\ rtPc' = "raised"
                    /\ rtRaised' = e
                    /\ UNCHANGED rtWaits
               ELSE /\ rtPc' = "sleep"
                    /\ rtWaits' = Append(rtWaits, wait(rtSite, rtAttempt))
                    /\ UNCHANGED rtRaised
    /\ UNCHANGED <<rtSite, rtAttempt>>
    /\ UNCHANGED <<coreVars, exceptRetry>>

\* await asyncio.sleep(wait), then the next value of attempt
RetrySleep ==
    /\ rtPc = "sleep"
    /\ rtAttempt' = rtAttempt + 1
    /\ rtPc' = "call"
    /\ UNCHANGED <<rtSite, rtErrors, rtWaits, rtRaised>>
    /\ UNCHANGED <<coreVars, exceptRetry>>

SpecRetryInit ==
    /\ rtSite \in RetrySites
    /\ rtAttempt = 0
    /\ rtPc = "call"
    /\ rtErrors = <<>>
    /\ rtWaits = <<>>
    /\ rtRaised = "none"
    /\ BusIdle /\ IvIdle /\ EdgeIdle /\ WkIdle /\ GatherIdle
    /\ RrIdle
    /\ OfIdle
    /\ NgIdle
    /\ DlIdle
    /\ RbIdle
    /\ TdIdle
    /\ RvIdle
    /\ SseIdle
    /\ PhaseIdle
    /\ PickIdle /\ ToolIdle /\ CmdIdle /\ ChainIdle

RetryNext == RetryCall \/ RetrySleep

SpecRetry == SpecRetryInit /\ [][RetryNext]_vars

\* --------------------------------- three-phase execution (explore, plan, act)
\* rates per million tokens, in cents: costs are kept in units of 1e-8 USD
\* so that the division by 1_000_000 is exact
_MODEL_COSTS ==
    ("claude-haiku-4-5-20251001" :> <<80, 400>>) @@
    ("claude-sonnet-4-20250514" :> <<300, 1500>>) @@
    ("claude-opus-4-20250514" :> <<1500, 7500>>)

_DEFAULT_COST == <<300, 1500>>

_compute_model_cost_default_rates(model, input_tokens, output_tokens) ==
    input_tokens * _DEFAULT_COST[1] + output_tokens * _DEFAULT_COST[2]
_compute_model_cost(model, input_tokens, output_tokens) ==
    LET rates == IF model \in DOMAIN _MODEL_COSTS THEN _MODEL_COSTS[model]
                 ELSE _DEFAULT_COST
    IN  input_tokens * rates[1] + output_tokens * rates[2]

\* task.user_prompt, as a list of sections
UserPrompt == <<"Do the thing.">>

_build_plan_user(summary) ==
    (IF summary # "" THEN <<"## Exploration Summary", summary>> ELSE <<>>)
        \o <<"## Original Task">> \o UserPrompt

_build_act_user_always_composed(summary, plan) ==
    (IF plan # "" THEN <<"## Implementation Plan", plan>> ELSE <<>>)
        \o (IF summary # "" THEN <<"## Codebase Context", summary>> ELSE <<>>)
        \o <<"## Original Task">> \o UserPrompt
_build_act_user(summary, plan) ==
    IF summary = "" /\ plan = "" THEN UserPrompt
    ELSE (IF plan # "" THEN <<"## Implementation Plan", plan>> ELSE <<>>)
        \o (IF summary # "" THEN <<"## Codebase Context", summary>> ELSE <<>>)
        \o <<"## Original Task">> \o UserPrompt

\* the model of a phase, "" when the phase is not requested
PhaseModel(task, phase) ==
    CASE phase = "explore" -> task.explore_model
      [] phase = "plan" -> task.plan_model
      [] OTHER -> task.model

NextPhase(phase) ==
    CASE phase = "explore" -> "plan"
      [] phase = "plan" -> "act"
      [] OTHER -> "done"

\* the conditions guarding the on_event calls of execute
EmitsPhaseEvents(task, phase) ==
    IF phase = "act"
    THEN task.on_event /\ (task.explore_model # "" \/ task.plan_model # "")
    ELSE task.on_event

PhaseEvent(type, phase) == [kind |-> type, phase |-> phase]

\* task.explore_max_rounds / task.max_tool_rounds; the plan is one call
PhaseMaxRounds(phase) == IF phase = "plan" THEN 1 ELSE MaxRounds

\* response.usage of one provider call
Usages == {[input |-> 1, output |-> 2], [input |-> 3, output |-> 1]}

\* if task.explore_model: / if task.plan_model: is false
PhaseSkip ==
    /\ phPhase \in {"explore", "plan"}
    /\ phStep = "enter"
    /\ PhaseModel(phTask, phPhase) = ""
    /\ phPhase' = NextPhase(phPhase)
    /\ UNCHANGED <<phTask, phStep, phRound, phLoop, phTotal, phSummary, phPlan,
                   phTrace>>
    /\ UNCHANGED <<coreVars, exceptPhase>>

\* the phase_started event (where the code emits one) and the entry of
\* _run_tool_loop / _run_plan_call
PhaseStart ==
    /\ phPhase \in {"explore", "plan", "act"}
    /\ phStep = "enter"
    /\ PhaseModel(phTask, phPhase) # ""
    /\ phTrace' = IF EmitsPhaseEvents(phTask, phPhase)
                  THEN Append(phTrace, PhaseEvent("phase_started", phPhase))
                  ELSE phTrace
    /\ phStep' = IF PhaseMaxRounds(phPhase) = 0 THEN "exit" ELSE "call"
    /\ phRound' = 0
    /\ phLoop' = [input |-> 0, output |-> 0]
    /\ UNCHANGED <<phTask, phPhase, phTotal, phSummary, phPlan>>
    /\ UNCHANGED <<coreVars, exceptPhase>>

\* one provider call that answers: the usage is added; the loop goes on
\* while the response asks for tools and rounds remain
PhaseCall ==
    /\ phStep = "call"
    /\ \E u \in Usages, more \in BOOLEAN :
        /\ phTrace' = Append(phTrace,
              [kind |-> "call", phase |-> phPhase,
               model |-> PhaseModel(phTask, phPhase),
               prompt |-> CASE phPhase = "explore" -> UserPrompt
                            [] phPhase = "plan" -> _build_plan_user(phSummary)
                            [] OTHER -> _build_act_user(phSummary, phPlan),
               input |-> u.input, output |-> u.output])
        /\ phLoop' = [input |-> phLoop.input + u.input,
                      output |-> phLoop.output + u.output]
        /\ phRound' = phRound + 1
        /\ phStep' = IF more /\ phRound + 1 < PhaseMaxRounds(phPhase)
                     THEN "call" ELSE "exit"
    /\ UNCHANGED <<phTask, phPhase, phTotal, phSummary, phPlan>>
    /\ UNCHANGED <<coreVars, exceptPhase>>

\* the provider call raises (after the retries): execute raises
PhaseCallRaises ==
    /\ phStep = "call"
    /\ phPhase' = "raised"
    /\ phStep' = "exit"
    /\ UNCHANGED <<phTask, phRound, phLoop, phTotal, phSummary, phPlan, phTrace>>
    /\ UNCHANGED <<coreVars, exceptPhase>>

\* the phase returns its _PhaseResult: cost from the phase's model and its
\* own token counts, totals, phase_completed
PhaseFinish ==
    /\ phPhase \in {"explore", "plan", "act"}
    /\ phStep = "exit"
    /\ \E text \in {"", "text"} :
        /\ phSummary' = IF phPhase = "explore" THEN text ELSE phSummary
        /\ phPlan' = IF phPhase = "plan" THEN text ELSE phPlan
    /\ phTotal' = [input |-> phTotal.input + phLoop.input,
                   output |-> phTotal.output + phLoop.output,
                   cost |-> phTotal.cost
                       + _compute_model_cost(PhaseModel(phTask, phPhase),
                                             phLoop.input, phLoop.output)]
    /\ phTrace' = IF EmitsPhaseEvents(phTask, phPhase)
                  THEN Append(phTrace, PhaseEvent("phase_completed", phPhase))
                  ELSE phTrace
    /\ phPhase' = NextPhase(phPhase)
    /\ phStep' = "enter"
    /\ UNCHANGED <<phTask, phRound, phLoop>>
    /\ UNCHANGED <<coreVars, exceptPhase>>

\* the tasks execute is given: the phase fields as the tests and callers
\* pass them
PhaseTasks ==
    [model : {"claude-sonnet-4-20250514", "claude-haiku-4-5-20251001",
              "claude-next"},
     explore_model : {"", "claude-haiku-4-5-20251001", "claude-next"},
     plan_model : {"", "claude-opus-4-20250514"},
     on_event : BOOLEAN]

SpecPhasesInit ==
    /\ phTask \in PhaseTasks
    /\ phPhase = "explore"
    /\ phStep = "enter"
    /\ phRound = 0
    /\ phLoop = [input |-> 0, output |-> 0]
    /\ phTotal = [input |-> 0, output |-> 0, cost |-> 0]
    /\ phSummary = ""
    /\ phPlan = ""
    /\ phTrace = <<>>
    /\ BusIdle /\ IvIdle /\ EdgeIdle /\ WkIdle /\ GatherIdle
    /\ RrIdle
    /\ OfIdle
    /\ NgIdle
    /\ DlIdle
    /\ RbIdle
    /\ TdIdle
    /\ RvIdle
    /\ SseIdle
    /\ PickIdle /\ ToolIdle /\ CmdIdle /\ ChainIdle /\ RetryIdle

PhasesNext ==
    PhaseSkip \/ PhaseStart \/ PhaseCall \/ PhaseCallRaises \/ PhaseFinish

SpecPhases == SpecPhasesInit /\ [][PhasesNext]_vars

\* ------------------------------- replay from an id, and the SSE generator
SseEventTypes ==
    {"stage_entered", "pipeline_completed", "pipeline_failed", "pipeline_paused"}

\* from_id values a caller may pass; "0" is the default
FromIds == 0..3

\* the Worker (or a node) emits on the CR's stream
SseEmit ==
    /\ Len(streams[ccr]) < MaxSseEvents
    /\ \E t \in SseEventTypes, gap \in {1, 2} : emit(ccr, t, "worker", gap)
    /\ UNCHANGED <<clientVars, ivVars, edgeVars, wkVars, lateVars>>

\* events, last_id = await event_bus.replay(cr_id, from_id)
SseReplay ==
    /\ cpc = "start"
    /\ LET entries == XRange(ccr, sseFrom) IN
        /\ buffer' = entries
        /\ cursor' = ReplayLastId(entries)
        /\ replayCount' = Len(entries)
    /\ sseSeen' = Len(streams[ccr])
    /\ cpc' = "replayed"
    /\ UNCHANGED <<streams, clock, ccr, delivered, atSubscribe, seenEmpty>>
    /\ UNCHANGED <<sseFrom, sseGone>>
    /\ UNCHANGED <<ivVars, edgeVars, wkVars, gather, exceptSse>>

\* the event types after which _event_generator breaks
SseClosingTypes == {"pipeline_completed", "pipeline_failed"}

\* one event of the subscription reaches the generator: break if the client
\* is gone, else yield it, and break after a closing event
SseYieldLive ==
    /\ cpc = "subscribed"
    /\ buffer # <<>>
    /\ cursor' = Head(buffer).id
    /\ buffer' = Tail(buffer)
    /\ IF sseGone
       THEN /\ cpc' = "closed"
            /\ UNCHANGED delivered
       ELSE /\ delivered' = Append(delivered, Head(buffer).id)
            /\ cpc' = IF Head(buffer).type \in SseClosingTypes
                      THEN "closed" ELSE cpc
    /\ UNCHANGED <<streams, clock, ccr, replayCount, atSubscribe, seenEmpty>>
    /\ UNCHANGED <<sseFrom, sseSeen, sseGone>>
    /\ UNCHANGED <<ivVars, edgeVars, wkVars, gather, exceptSse>>

\* the client goes away
SseDisconnect ==
    /\ cpc # "closed"
    /\ ~sseGone
    /\ sseGone' = TRUE
    /\ UNCHANGED <<sseFrom, sseSeen>>
    /\ UNCHANGED <<coreVars, exceptSse>>

SpecSseInit ==
    /\ sseFrom \in FromIds
    /\ sseSeen = -1
    /\ sseGone = FALSE
    /\ BusIdle /\ IvIdle /\ EdgeIdle /\ WkIdle /\ GatherIdle
    /\ RrIdle
    /\ OfIdle
    /\ NgIdle
    /\ DlIdle
    /\ RbIdle
    /\ TdIdle
    /\ RvIdle
    /\ PickIdle /\ ToolIdle /\ CmdIdle /\ ChainIdle /\ RetryIdle /\ PhaseIdle

SseNext ==
    \/ SseEmit
    \/ SseReplay
    \/ YieldReplayed
    \/ SubscribeRead
    \/ SseYieldLive
    \/ SseDisconnect

SpecSse == SpecSseInit /\ [][SseNext]_vars

\* ------------------------------------- interventions during a pipeline run
\* POST /pipeline/{cr_id}/intervene: the CR exists, the instructions are
\* stored under the CR's intervention key
InterveneRoute ==
    /\ wpc # "none"
    /\ SetCall(_intervention_key(Cr))
    /\ UNCHANGED <<busVars, edgeVars, wkVars, lateVars>>

InterveneNext ==
    \/ WorkerStart
    \/ NodeStep
    \/ PersistFinal
    \/ EmitFinal
    \/ InterveneRoute

\* one Worker run, with interventions arriving at any moment
SpecIntervene == Init /\ [][InterveneNext]_vars

\* ------------------------------------------------ the review node, in detail
\* what a reviewer agent may answer: text that is not JSON, or a JSON object
\* whose findings have these severities
ReviewerOutputs ==
    {<<"prose">>, <<"json">>, <<"json", "minor">>, <<"json", "major">>,
     <<"json", "critical">>}

\* json.loads of the reviewer's output, with the fallback of the except
\* clause: no findings
ParseFindings(raw) == IF Head(raw) = "json" THEN Tail(raw) ELSE <<>>

BlockingSeverities == {"critical", "major"}

\* passed = len(blocking_findings) == 0
ReviewPassedOnlyCritical(all_findings) ==
    \A i \in 1..Len(all_findings) : all_findings[i] # "critical"
ReviewPassed(all_findings) ==
    \A i \in 1..Len(all_findings) : all_findings[i] \notin BlockingSeverities

NoReviewer == [status |-> "idle", raw |-> <<>>, findings |-> <<>>]

\* stage_entered; the loop over affected_repos starts
RvEnter ==
    /\ rvPc = "enter"
    /\ rvPc' = IF rvRepos = 0 THEN "exit" ELSE "gather"
    /\ UNCHANGED <<rvRepos, rvLoop, rvOut, rvResults, rvUpdate, rvCompleted>>
    /\ UNCHANGED <<coreVars, exceptRv>>

\* asyncio.gather starts the three reviewer tasks; each runs on its own
RvReviewerStart ==
    /\ rvPc = "gather"
    /\ \E r \in ReviewerSet :
        /\ rvOut[r].status = "idle"
        /\ rvOut' = [rvOut EXCEPT ![r].status = "running"]
    /\ UNCHANGED <<rvRepos, rvLoop, rvPc, rvResults, rvUpdate, rvCompleted>>
    /\ UNCHANGED <<coreVars, exceptRv>>

\* a reviewer's agent returns and _run_single_reviewer parses its output
RvReviewerFinish ==
    /\ rvPc = "gather"
    /\ \E r \in ReviewerSet, raw \in ReviewerOutputs :
        /\ rvOut[r].status = "running"
        /\ rvOut' = [rvOut EXCEPT ![r] = [status |-> "done", raw |-> raw,
                                          findings |-> ParseFindings(raw)]]
    /\ UNCHANGED <<rvRepos, rvLoop, rvPc, rvResults, rvUpdate, rvCompleted>>
    /\ UNCHANGED <<coreVars, exceptRv>>

\* gather returned: merge the findings in the order of _REVIEWER_ROLES,
\* decide the repo's verdict, go to the next repo
RvMerge ==
    /\ rvPc = "gather"
    /\ \A r \in ReviewerSet : rvOut[r].status = "done"
    /\ LET all_findings == rvOut[_REVIEWER_ROLES[1]].findings
                           \o rvOut[_REVIEWER_ROLES[2]].findings
                           \o rvOut[_REVIEWER_ROLES[3]].findings
       IN  rvResults' = Append(rvResults,
               [findings |-> all_findings,
                review_passed |-> ReviewPassed(all_findings),
                review_iteration |-> rvLoop + 1])
    /\ rvOut' = [r \in ReviewerSet |-> NoReviewer]
    /\ rvPc' = IF Len(rvResults) + 1 = rvRepos THEN "exit" ELSE "gather"
    /\ UNCHANGED <<rvRepos, rvLoop, rvUpdate, rvCompleted>>
    /\ UNCHANGED <<coreVars, exceptRv>>

\* all_passed, stage_completed and the returned update
RvExit ==
    /\ rvPc = "exit"
    /\ rvUpdate' = [review_passed |->
                        \A i \in 1..Len(rvResults) : rvResults[i].review_passed,
                    review_loop_count |-> rvLoop + 1]
    /\ rvCompleted' = TRUE
    /\ rvPc' = "done"
    /\ UNCHANGED <<rvRepos, rvLoop, rvOut, rvResults>>
    /\ UNCHANGED <<coreVars, exceptRv>>

SpecReviewInit ==
    /\ rvRepos \in 0..MaxRepos
    /\ rvLoop \in 0..2
    /\ rvPc = "enter"
    /\ rvOut = [r \in ReviewerSet |-> NoReviewer]
    /\ rvResults = <<>>
    /\ rvUpdate = [review_passed |-> FALSE, review_loop_count |-> -1]
    /\ rvCompleted = FALSE
    /\ BusIdle /\ IvIdle /\ EdgeIdle /\ WkIdle /\ GatherIdle
    /\ RrIdle
    /\ OfIdle
    /\ NgIdle
    /\ DlIdle
    /\ RbIdle
    /\ TdIdle
    /\ PickIdle /\ ToolIdle /\ CmdIdle /\ ChainIdle /\ RetryIdle /\ PhaseIdle /\ SseIdle

ReviewNext ==
    RvEnter \/ RvReviewerStart \/ RvReviewerFinish \/ RvMerge \/ RvExit

SpecReview == SpecReviewInit /\ [][ReviewNext]_vars

\* ------------------------------------- the TDD node and the test command
TestNodes == {"tdd", "rebase", "delivery"}

\* max_tdd_iterations: small budgets and the default
TddBudgets == {1, 2, 5}

\* how a run of the test command can end
TestOutcomes == {"pass", "fail", "timeout"}

\* pipeline/testing.py run_test_command (rebase): the timeout is caught,
\* the process killed and awaited
run_test_command(outcome) ==
    [passed |-> outcome = "pass", raised |-> FALSE,
     killed |-> outcome = "timeout",
     output |-> IF outcome = "timeout" THEN "timed out" ELSE "output"]

\* the inline runner of delivery_node: the timeout is caught, the process
\* killed
DeliveryRunTests(outcome) ==
    [passed |-> outcome = "pass", raised |-> FALSE,
     killed |-> outcome = "timeout",
     output |-> IF outcome = "timeout" THEN "timed out" ELSE "output"]

\* nodes/tdd.py _run_tests: wait_for raises TimeoutError, nothing catches
\* it and nothing kills the process
_run_tests(outcome) ==
    [passed |-> outcome = "pass", raised |-> outcome = "timeout",
     killed |-> FALSE,
     output |-> IF outcome = "timeout" THEN "TimeoutError" ELSE "output"]

RunTestsOf(n, outcome) ==
    CASE n = "tdd" -> _run_tests(outcome)
      [] n = "rebase" -> run_test_command(outcome)
      [] OTHER -> DeliveryRunTests(outcome)

TdEntry(what) == [repo |-> tdRepo, what |-> what]

\* position after a repo is finished
TdNextRepo == IF tdRepo < tdRepos THEN "repo" ELSE "return"

\* for repo in state.get("affected_repos", [])
TdRepoLoop ==
    /\ tdPc = "repo"
    /\ tdRepo' = tdRepo + 1
    /\ tdIter' = 0
    /\ tdPc' = IF tdNode = "tdd" THEN "test_writer" ELSE "tests"
    /\ UNCHANGED <<tdNode, tdRepos, tdMax, tdLoop, tdTrace, tdUpdate>>
    /\ UNCHANGED <<coreVars, exceptTd>>

\* red phase: the test_writer agent, then the green loop starts
TdTestWriter ==
    /\ tdPc = "test_writer"
    /\ tdTrace' = Append(tdTrace, TdEntry("test_writer"))
    /\ tdPc' = IF tdMax > 0 THEN "code_writer" ELSE "commit"
    /\ UNCHANGED <<tdNode, tdRepos, tdMax, tdLoop, tdRepo, tdIter, tdUpdate>>
    /\ UNCHANGED <<coreVars, exceptTd>>

\* green phase: the code_writer agent of this iteration
TdCodeWriter ==
    /\ tdPc = "code_writer"
    /\ tdTrace' = Append(tdTrace, TdEntry("code_writer"))
    /\ tdPc' = "tests"
    /\ UNCHANGED <<tdNode, tdRepos, tdMax, tdLoop, tdRepo, tdIter, tdUpdate>>
    /\ UNCHANGED <<coreVars, exceptTd>>

\* the test command runs; the TDD loop breaks on a pass and goes on while
\* iterations remain, the other nodes go to the next repo
TdRunTests ==
    /\ tdPc = "tests"
    /\ \E outcome \in TestOutcomes :
        LET r == RunTestsOf(tdNode, outcome) IN
        /\ tdTrace' = Append(tdTrace,
              [repo |-> tdRepo, what |-> "tests", outcome |-> outcome,
               passed |-> r.passed, raised |-> r.raised, killed |-> r.killed,
               output |-> r.output])
        /\ IF r.raised
           THEN /\ tdPc' = "raised"
                /\ UNCHANGED tdIter
           ELSE IF tdNode # "tdd"
           THEN /\ tdPc' = TdNextRepo
                /\ UNCHANGED tdIter
           ELSE IF r.passed \/ tdIter + 1 >= tdMax
           THEN /\ tdPc' = "commit"
                /\ UNCHANGED tdIter
           ELSE /\ tdPc' = "code_writer"
                /\ tdIter' = tdIter + 1
    /\ UNCHANGED <<tdNode, tdRepos, tdMax, tdLoop, tdRepo, tdUpdate>>
    /\ UNCHANGED <<coreVars, exceptTd>>

\* wm.commit_and_push, green or red
TdCommit ==
    /\ tdPc = "commit"
    /\ tdTrace' = Append(tdTrace, TdEntry("commit"))
    /\ tdPc' = TdNextRepo
    /\ UNCHANGED <<tdNode, tdRepos, tdMax, tdLoop, tdRepo, tdIter, tdUpdate>>
    /\ UNCHANGED <<coreVars, exceptTd>>

\* the node returns its update
TdReturn ==
    /\ tdPc = "return"
    /\ tdUpdate' = IF tdNode = "tdd" THEN tdLoop + 1 ELSE tdUpdate
    /\ tdPc' = "done"
    /\ UNCHANGED <<tdNode, tdRepos, tdMax, tdLoop, tdRepo, tdIter, tdTrace>>
    /\ UNCHANGED <<coreVars, exceptTd>>

SpecTddInit ==
    /\ tdNode \in TestNodes
    /\ tdRepos \in 0..MaxRepos
    /\ tdMax \in TddBudgets
    /\ tdLoop \in 0..1
    /\ tdRepo = 0
    /\ tdIter = 0
    /\ tdPc = IF tdRepos = 0 THEN "return" ELSE "repo"
    /\ tdTrace = <<>>
    /\ tdUpdate = -1
    /\ BusIdle /\ IvIdle /\ EdgeIdle /\ WkIdle /\ GatherIdle
    /\ RrIdle
    /\ OfIdle
    /\ NgIdle
    /\ DlIdle
    /\ RbIdle
    /\ PickIdle /\ ToolIdle /\ CmdIdle /\ ChainIdle /\ RetryIdle /\ PhaseIdle /\ SseIdle /\ RvIdle

TddNext ==
    \/ TdRepoLoop
    \/ TdTestWriter
    \/ TdCodeWriter
    \/ TdRunTests
    \/ TdCommit
    \/ TdReturn

SpecTdd == SpecTddInit /\ [][TddNext]_vars

\* --------------------------------------------------------- the rebase node
\* how wm.rebase_keep_conflicts can end: clean, stopped on a conflict, or
\* raising (fetch or start failed), which the node treats as clean
RebaseStarts == {"clean", "conflict", "error"}

\* for attempt in range(3)
RebaseMoreAttempts == 3

\* position after a repo is finished
RbNextRepo == IF rbRepo < rbRepos THEN "repo" ELSE "return"

\* for repo in affected_repos: wm.rebase_keep_conflicts
RbRepoLoop ==
    /\ rbPc = "repo"
    /\ rbRepo' = rbRepo + 1
    /\ rbAttempt' = 0
    /\ rbContinued' = FALSE
    /\ \E start \in RebaseStarts :
        IF start = "conflict"
        THEN /\ rbConflicts' = Append(rbConflicts, rbRepo + 1)
             /\ rbPc' = "resolver"
             /\ UNCHANGED rbEnd
        ELSE /\ rbEnd' = [rbEnd EXCEPT ![rbRepo + 1] =
                            IF start = "clean" THEN "clean" ELSE "skipped"]
             /\ rbPc' = IF rbRepo + 1 < rbRepos THEN "repo" ELSE "return"
             /\ UNCHANGED rbConflicts
    /\ UNCHANGED <<rbRepos, rbClean, rbCalls, rbUpdate>>
    /\ UNCHANGED <<coreVars, exceptRb>>

\* the first conflict_resolver execution and wm.continue_rebase
RbResolve ==
    /\ rbPc = "resolver"
    /\ rbCalls' = [rbCalls EXCEPT ![rbRepo] = @ + 1]
    /\ \E continued \in BOOLEAN :
        /\ rbContinued' = continued
        /\ IF continued
           THEN /\ rbEnd' = [rbEnd EXCEPT ![rbRepo] = "resolved"]
                /\ rbPc' = RbNextRepo
           ELSE /\ rbPc' = "retry"
                /\ UNCHANGED rbEnd
    /\ UNCHANGED <<rbRepos, rbRepo, rbAttempt, rbClean, rbConflicts, rbUpdate>>
    /\ UNCHANGED <<coreVars, exceptRb>>

\* one pass of the retry loop: stop when no conflict file is left, else
\* run the resolver again and continue the rebase
RbRetry ==
    /\ rbPc = "retry"
    /\ IF rbAttempt >= RebaseMoreAttempts
       THEN /\ rbPc' = "after"
            /\ UNCHANGED <<rbAttempt, rbContinued, rbCalls>>
       ELSE \E remaining \in BOOLEAN :
            IF ~remaining
            THEN /\ rbPc' = "after"
                 /\ UNCHANGED <<rbAttempt, rbContinued, rbCalls>>
            ELSE /\ rbCalls' = [rbCalls EXCEPT ![rbRepo] = @ + 1]
                 /\ \E continued \in BOOLEAN :
                      /\ rbContinued' = continued
                      /\ rbPc' = IF continued THEN "after" ELSE "retry"
                      /\ rbAttempt' = IF continued THEN rbAttempt
                                      ELSE rbAttempt + 1
    /\ UNCHANGED <<rbRepos, rbRepo, rbClean, rbConflicts, rbEnd, rbUpdate>>
    /\ UNCHANGED <<coreVars, exceptRb>>

\* after the retries: abort, or record the resolution
RbAfterRetries ==
    /\ rbPc = "after"
    /\ IF ~rbContinued
       THEN /\ rbEnd' = [rbEnd EXCEPT ![rbRepo] = "aborted"]
            /\ rbClean' = FALSE
       ELSE /\ rbEnd' = [rbEnd EXCEPT ![rbRepo] = "resolved"]
            /\ rbClean' = TRUE
    /\ rbPc' = RbNextRepo
    /\ UNCHANGED <<rbRepos, rbRepo, rbAttempt, rbContinued, rbConflicts,
                   rbCalls, rbUpdate>>
    /\ UNCHANGED <<coreVars, exceptRb>>

\* result_state; the post-rebase test runs only reach the stage_completed
\* event
RbReturn ==
    /\ rbPc = "return"
    /\ rbUpdate' =
          [rebase_clean |-> rbClean,
           rebase_conflicts |-> IF rbClean THEN <<>> ELSE rbConflicts,
           status |-> IF rbClean THEN "unchanged" ELSE "paused",
           error |-> IF rbClean THEN <<>> ELSE rbConflicts]
    /\ rbPc' = "done"
    /\ UNCHANGED <<rbRepos, rbRepo, rbAttempt, rbContinued, rbClean,
                   rbConflicts, rbCalls, rbEnd>>
    /\ UNCHANGED <<coreVars, exceptRb>>

SpecRebaseInit ==
    /\ rbRepos \in 0..MaxRepos
    /\ rbRepo = 0
    /\ rbPc = IF rbRepos = 0 THEN "return" ELSE "repo"
    /\ rbAttempt = 0
    /\ rbContinued = FALSE
    /\ rbClean = TRUE
    /\ rbConflicts = <<>>
    /\ rbCalls = [r \in 1..rbRepos |-> 0]
    /\ rbEnd = [r \in 1..rbRepos |-> "none"]
    /\ rbUpdate = <<>>
    /\ BusIdle /\ IvIdle /\ EdgeIdle /\ WkIdle /\ GatherIdle
    /\ RrIdle
    /\ OfIdle
    /\ NgIdle
    /\ DlIdle
    /\ PickIdle /\ ToolIdle /\ CmdIdle /\ ChainIdle /\ RetryIdle /\ PhaseIdle /\ SseIdle /\ RvIdle /\ TdIdle

RebaseNext ==
    \/ RbRepoLoop
    \/ RbResolve
    \/ RbRetry
    \/ RbAfterRetries
    \/ RbReturn

SpecRebase == SpecRebaseInit /\ [][RebaseNext]_vars

\* ------------------------------------------------------- the delivery node
\* how the test command of a repo can end in delivery_node; "error" is any
\* other exception of the subprocess
DeliveryTestOutcomes == TestOutcomes \cup {"error"}

\* how wm.commit_and_push under wait_for(timeout=60) can end
PushOutcomes == {"ok", "timeout", "error"}

\* branch_pushed: the push is attempted only if tests_passing
branch_pushed_whatever_tests(tests_passing, push) == push = "ok"
branch_pushed(tests_passing, push) == tests_passing /\ push = "ok"

\* all(r["tests_passing"] and r["branch_pushed"] for r in delivery_results)
all_delivered(results) ==
    \A i \in 1..Len(results) :
        results[i].tests_passing /\ results[i].branch_pushed

\* for repo in affected_repos: run the tests, push, append the result
DlRepoLoop ==
    /\ dlPc = "repo"
    /\ dlRepo' = dlRepo + 1
    /\ \E outcome \in DeliveryTestOutcomes, push \in PushOutcomes :
        LET tests_passing == DeliveryRunTests(outcome).passed IN
        dlResults' = Append(dlResults,
            [tests_passing |-> tests_passing,
             branch_pushed |-> branch_pushed(tests_passing, push)])
    /\ dlPc' = IF dlRepo + 1 < dlRepos THEN "repo" ELSE "return"
    /\ UNCHANGED <<dlRepos, dlState, dlNode, dlPath, dlFinal>>
    /\ UNCHANGED <<coreVars, exceptDl>>

\* the node returns; the engine merges the update and follows the edge
DlReturn ==
    /\ dlPc = "return"
    /\ dlState' = Merge(dlState, "all_delivered" :> all_delivered(dlResults))
    /\ dlNode' = build_pipeline_graph("delivery", dlState')
    /\ dlPc' = "graph"
    /\ UNCHANGED <<dlRepos, dlRepo, dlResults, dlPath, dlFinal>>
    /\ UNCHANGED <<coreVars, exceptDl>>

\* the nodes after delivery run one by one
DlGraphStep ==
    /\ dlPc = "graph"
    /\ dlNode # "END"
    /\ dlState' = Merge(dlState, NodeUpdate(dlNode, dlState, TRUE, 0))
    /\ dlNode' = build_pipeline_graph(dlNode, dlState')
    /\ dlPath' = Append(dlPath, dlNode)
    /\ UNCHANGED <<dlRepos, dlRepo, dlPc, dlResults, dlFinal>>
    /\ UNCHANGED <<coreVars, exceptDl>>

\* run_worker: final_status = final_state.get("status", "completed")
DlFinalStatus ==
    /\ dlPc = "graph"
    /\ dlNode = "END"
    /\ dlFinal' = Get(dlState, "status", "completed")
    /\ dlPc' = "done"
    /\ UNCHANGED <<dlRepos, dlRepo, dlResults, dlState, dlNode, dlPath>>
    /\ UNCHANGED <<coreVars, exceptDl>>

SpecDeliveryInit ==
    /\ dlRepos \in 0..MaxRepos
    /\ dlRepo = 0
    /\ dlPc = IF dlRepos = 0 THEN "return" ELSE "repo"
    /\ dlResults = <<>>
    /\ dlState \in {Merge(initial_state, "rebase_clean" :> TRUE @@ CostUpdate(c)) :
                       c \in 0..MaxCost}
    /\ dlNode = "delivery"
    /\ dlPath = <<>>
    /\ dlFinal = "none"
    /\ BusIdle /\ IvIdle /\ EdgeIdle /\ WkIdle /\ GatherIdle
    /\ RrIdle
    /\ OfIdle
    /\ NgIdle
    /\ PickIdle /\ ToolIdle /\ CmdIdle /\ ChainIdle /\ RetryIdle /\ PhaseIdle /\ SseIdle /\ RvIdle /\ TdIdle /\ RbIdle

DeliveryNext ==
    \/ DlRepoLoop
    \/ DlReturn
    \/ DlGraphStep
    \/ DlFinalStatus

SpecDelivery == SpecDeliveryInit /\ [][DeliveryNext]_vars

\* ------------------------------------------------- nudges in the tool loop
LoopBackends == {"claude", "gemini"}

\* what a provider response can hold: text only, tool calls, or (Claude)
\* tool calls with stop_reason end_turn
LoopResponses(backend) ==
    {"text", "tool_use"} \cup (IF backend = "claude" THEN {"tool_use_end_turn"} ELSE {})

\* if response.stop_reason == "end_turn": break (after the tool results)
EndsTurnAfterTools(backend, response) ==
    backend = "claude" /\ response = "tool_use_end_turn"

\* the nudges among the messages
NudgesIn(messages) ==
    {messages[i].nudge : i \in {j \in 1..Len(messages) : messages[j].kind = "nudge"}}

Message(kind) == [kind |-> kind, nudge |-> 0]

\* PUT of a nudge for the role while its agent runs: SET overwrites
NgSetNudge ==
    /\ ngPc = "loop"
    /\ ngSet < MaxNudges
    /\ ngSet' = ngSet + 1
    /\ ngKey' = ngSet + 1
    /\ UNCHANGED <<ngBackend, ngMax, ngOnEvent, ngPoller, ngRound, ngPc,
                   ngMessages, ngSent, ngConsumed, ngEvents, ngPolls,
                   ngToolRounds>>
    /\ UNCHANGED <<coreVars, exceptNg>>

\* one round of the loop: the provider call on the messages so far, the
\* tools, the poll of the nudge key (get and delete), the end of the loop
NgRound ==
    /\ ngPc = "loop"
    /\ ngSent' = ngSent \cup NudgesIn(ngMessages)
    /\ \E response \in LoopResponses(ngBackend) :
        LET withTools == ngMessages \o <<Message("assistant"), Message("tool_results")>>
            polls == ngPoller /\ ~EndsTurnAfterTools(ngBackend, response)
            nudge == IF polls THEN ngKey ELSE 0
        IN
        IF response = "text"
        THEN /\ ngPc' = "done"
             /\ UNCHANGED <<ngRound, ngMessages, ngKey, ngConsumed, ngEvents,
                            ngPolls, ngToolRounds>>
        ELSE /\ ngMessages' = IF nudge # 0
                              THEN Append(withTools, [kind |-> "nudge", nudge |-> nudge])
                              ELSE withTools
             /\ ngKey' = IF polls THEN 0 ELSE ngKey
             /\ ngPolls' = IF polls THEN ngPolls + 1 ELSE ngPolls
             /\ ngConsumed' = IF nudge # 0
                              THEN Append(ngConsumed, [id |-> nudge, round |-> ngRound])
                              ELSE ngConsumed
             /\ ngEvents' = IF nudge # 0 /\ ngOnEvent
                            THEN Append(ngEvents, nudge) ELSE ngEvents
             /\ ngToolRounds' = IF EndsTurnAfterTools(ngBackend, response)
                                THEN ngToolRounds ELSE ngToolRounds + 1
             /\ IF EndsTurnAfterTools(ngBackend, response)
                THEN ngPc' = "done" /\ UNCHANGED ngRound
                ELSE /\ ngRound' = ngRound + 1
                     /\ ngPc' = IF ngRound + 1 < ngMax THEN "loop" ELSE "done"
    /\ UNCHANGED <<ngBackend, ngMax, ngOnEvent, ngPoller, ngSet>>
    /\ UNCHANGED <<coreVars, exceptNg>>

SpecNudgeInit ==
    /\ ngBackend \in LoopBackends
    /\ ngMax \in 1..MaxRounds
    /\ ngOnEvent \in BOOLEAN
    /\ ngPoller \in BOOLEAN
    /\ ngRound = 0
    /\ ngPc = "loop"
    /\ ngMessages = <<Message("user_prompt")>>
    /\ ngSent = {}
    /\ ngKey = 0
    /\ ngSet = 0
    /\ ngConsumed = <<>>
    /\ ngEvents = <<>>
    /\ ngPolls = 0
    /\ ngToolRounds = 0
    /\ BusIdle /\ IvIdle /\ EdgeIdle /\ WkIdle /\ GatherIdle
    /\ RrIdle
    /\ OfIdle
    /\ PickIdle /\ ToolIdle /\ CmdIdle /\ ChainIdle /\ RetryIdle /\ PhaseIdle /\ SseIdle /\ RvIdle /\ TdIdle /\ RbIdle /\ DlIdle

NudgeNext ==
    \/ NgSetNudge
    \/ NgRound

SpecNudge == SpecNudgeInit /\ [][NudgeNext]_vars

\* --------------------------------------------- the tools a loop is offered
ToolLoops == {"explore", "reviewer", "act"}

\* the allowed list of the loop: explore_tools, the reviewers' tools, the
\* default allowed_tools of AgentTask
AllowedTools(loop) ==
    IF loop \in {"explore", "reviewer"}
    THEN <<"read_file", "list_directory">>
    ELSE <<"read_file", "write_file", "list_directory", "run_command">>

\* _make_tools: [all_tools[name] for name in allowed if name in all_tools]
_make_tools(allowed) ==
    {allowed[i] : i \in {j \in 1..Len(allowed) :
                            allowed[j] \in ToolNames \ {"no_such_tool"}}}

\* inputs of the tool-use blocks of a response
BlockInputs ==
    {"path" :> <<"a.txt">>,
     "path" :> <<"new", "f.txt">> @@ "content" :> "text",
     "command" :> "0"}

\* the tool did its work: the branch of its name ran to its return
Performed(name, r) ==
    /\ name \in ToolNames \ {"no_such_tool"}
    /\ ~r.raised
    /\ r.out[1] # "Error"

\* for tu in tool_uses: result_text = await _execute_tool(tu.name, ...);
\* the name of the block is not compared with the tools offered
OfRound ==
    /\ ofPc = "loop"
    /\ \E name \in ToolNames, input \in BlockInputs :
        ofCalls' = Append(ofCalls,
            [name |-> name,
             performed |-> Performed(name, _execute_tool(name, input, FALSE))])
    /\ ofRound' = ofRound + 1
    /\ ofPc' = IF ofRound + 1 < ofMax THEN "loop" ELSE "done"
    /\ UNCHANGED <<ofLoop, ofOffered, ofMax>>
    /\ UNCHANGED <<coreVars, exceptOf>>

\* a response without tool-use blocks ends the loop
OfEndTurn ==
    /\ ofPc = "loop"
    /\ ofPc' = "done"
    /\ UNCHANGED <<ofLoop, ofOffered, ofMax, ofRound, ofCalls>>
    /\ UNCHANGED <<coreVars, exceptOf>>

SpecOfferInit ==
    /\ ofLoop \in ToolLoops
    /\ ofOffered = _make_tools(AllowedTools(ofLoop))
    /\ ofMax \in 1..MaxRounds
    /\ ofRound = 0
    /\ ofPc = "loop"
    /\ ofCalls = <<>>
    /\ BusIdle /\ IvIdle /\ EdgeIdle /\ WkIdle /\ GatherIdle
    /\ RrIdle
    /\ PickIdle /\ ToolIdle /\ CmdIdle /\ ChainIdle /\ RetryIdle /\ PhaseIdle /\ SseIdle /\ RvIdle /\ TdIdle /\ RbIdle /\ DlIdle /\ NgIdle

OfferNext ==
    \/ OfRound
    \/ OfEndTurn

SpecOffer == SpecOfferInit /\ [][OfferNext]_vars

\* ------------------------------------- resume requests and their Workers
ResumeRequests == 1..MaxRequests

\* how a Worker leaves the row when it exits
WorkerExitStatuses == {"paused", "failed", "completed"}

\* POST /pipeline/trigger: the row is created pending, a Worker is spawned
RrTrigger ==
    /\ rrStatus = "none"
    /\ rrStatus' = "pending"
    /\ rrSpawned' = rrSpawned + 1
    /\ UNCHANGED <<rrPc, rrResponse, rrRunning, rrOverlap>>
    /\ UNCHANGED <<coreVars, exceptRr>>

\* resume_pipeline, first session: select the row, 404 or 409 unless the
\* status is paused or failed
RrCheck(r) ==
    /\ rrPc[r] = "idle"
    /\ rrOverlap' = (rrOverlap \/ \E o \in ResumeRequests :
                                    rrPc[o] \in {"checked", "updated"})
    /\ IF rrStatus = "none"
       THEN /\ rrResponse' = [rrResponse EXCEPT ![r] = 404]
            /\ rrPc' = [rrPc EXCEPT ![r] = "done"]
       ELSE IF rrStatus \notin ResumableStatuses
       THEN /\ rrResponse' = [rrResponse EXCEPT ![r] = 409]
            /\ rrPc' = [rrPc EXCEPT ![r] = "done"]
       ELSE /\ rrPc' = [rrPc EXCEPT ![r] = "checked"]
            /\ UNCHANGED rrResponse
    /\ UNCHANGED <<rrStatus, rrSpawned, rrRunning>>
    /\ UNCHANGED <<coreVars, exceptRr>>

\* resume_pipeline, second session (after the overrides are stored):
\* update the row to running, whatever it holds by now
RrUpdate(r) ==
    /\ rrPc[r] = "checked"
    /\ rrStatus' = "running"
    /\ rrPc' = [rrPc EXCEPT ![r] = "updated"]
    /\ UNCHANGED <<rrResponse, rrSpawned, rrRunning, rrOverlap>>
    /\ UNCHANGED <<coreVars, exceptRr>>

\* job_spawner.spawn(cr_id): a new subprocess, whatever runs already
RrSpawn(r) ==
    /\ rrPc[r] = "updated"
    /\ rrSpawned' = rrSpawned + 1
    /\ rrPc' = [rrPc EXCEPT ![r] = "done"]
    /\ rrResponse' = [rrResponse EXCEPT ![r] = 200]
    /\ UNCHANGED <<rrStatus, rrRunning, rrOverlap>>
    /\ UNCHANGED <<coreVars, exceptRr>>

\* run_worker begins: the row is set running
RrWorkerStart ==
    /\ rrSpawned > 0
    /\ rrSpawned' = rrSpawned - 1
    /\ rrRunning' = rrRunning + 1
    /\ rrStatus' = "running"
    /\ UNCHANGED <<rrPc, rrResponse, rrOverlap>>
    /\ UNCHANGED <<coreVars, exceptRr>>

\* run_worker ends: the final status or failed is persisted
RrWorkerExit ==
    /\ rrRunning > 0
    /\ rrRunning' = rrRunning - 1
    /\ \E s \in WorkerExitStatuses : rrStatus' = s
    /\ UNCHANGED <<rrPc, rrResponse, rrSpawned, rrOverlap>>
    /\ UNCHANGED <<coreVars, exceptRr>>

RrCheckSome == \E r \in ResumeRequests : RrCheck(r)

RrUpdateSome == \E r \in ResumeRequests : RrUpdate(r)

RrSpawnSome == \E r \in ResumeRequests : RrSpawn(r)

SpecResumeRaceInit ==
    /\ rrStatus = "none"
    /\ rrPc = [r \in ResumeRequests |-> "idle"]
    /\ rrResponse = [r \in ResumeRequests |-> 0]
    /\ rrSpawned = 0
    /\ rrRunning = 0
    /\ rrOverlap = FALSE
    /\ BusIdle /\ IvIdle /\ EdgeIdle /\ WkIdle /\ GatherIdle
    /\ PickIdle /\ ToolIdle /\ CmdIdle /\ ChainIdle /\ RetryIdle /\ PhaseIdle /\ SseIdle /\ RvIdle /\ TdIdle /\ RbIdle /\ DlIdle /\ NgIdle /\ OfIdle

ResumeRaceNext ==
    \/ RrTrigger
    \/ RrCheckSome
    \/ RrUpdateSome
    \/ RrSpawnSome
    \/ RrWorkerStart
    \/ RrWorkerExit

SpecResumeRace == SpecResumeRaceInit /\ [][ResumeRaceNext]_vars

\* the event bus on its own: no worker, no interventions, no edge call
SpecBusInit == BusInit /\ IvIdle /\ EdgeIdle /\ WkIdle /\ LateIdle

SpecBus == SpecBusInit /\ [][BusNext]_vars

\* the intervention manager on its own
SpecIvInit == IvInit /\ BusIdle /\ EdgeIdle /\ WkIdle /\ LateIdle

SpecIv == SpecIvInit /\ [][IvNext]_vars

\* the edge functions on their own, applied to every bounded state
SpecEdgesInit == EdgeInit /\ BusIdle /\ IvIdle /\ WkIdle /\ LateIdle

SpecEdges == SpecEdgesInit /\ [][EdgeNext]_vars

\* C1: replay("0") followed by subscribe(last_id = replay's cursor) hands the
\* client exactly the stream's events in stream order: what was delivered
\* plus what is buffered is a gap-free, duplicate-free prefix of the stream,
\* and whenever a blocking read comes back empty the client holds every
\* event that was in the stream at that moment.
GapFreeReplay ==
    LET got == delivered \o Ids(buffer)
        all == Ids(streams[ccr])
    IN  /\ Len(got) <= Len(all)
        /\ got = SubSeq(all, 1, Len(got))
        /\ (seenEmpty # -1 => Len(delivered) >= seenEmpty)

\* an event emitted between the replay and the subscribe has been delivered
GapFreeReplayWitness ==
    /\ replayCount > 0
    /\ atSubscribe > replayCount
    /\ Len(delivered) >= atSubscribe
    /\ delivered = Ids(streams[ccr])

\* C2: every stored value is returned by at most one poll, and after a poll
\* the polled entry is absent (until a later set stores a new value).
ExactlyOnceConsumption ==
    /\ \A v \in DOMAIN returns : returns[v] <= 1
    /\ (lastOp.op = "poll" => kv[lastOp.key] = NoValue)

\* a stored value was consumed, a second poll of the same key found nothing
ExactlyOnceWitness ==
    /\ lastOp.op = "poll"
    /\ lastOp.result = NoValue
    /\ \E v \in DOMAIN returns : returns[v] = 1

\* ---- the loop counters and maxima of the graph's state
VCount == Get(st, "verification_loop_count", 0)
RCount == Get(st, "review_loop_count", 0)
VMax == MaxLoops(st, "max_verification_loops")
RMax == MaxLoops(st, "max_review_dev_loops")

LoopCounterInv ==
    /\ (~hist.overridden => VCount <= VMax /\ RCount <= RMax)
    /\ (node = "paused" /\ from = "verification" =>
            ~GetFlag(st, "behaviour_verified") /\ VCount >= VMax)
    /\ (node = "paused" /\ from = "review" =>
            ~GetFlag(st, "review_passed") /\ RCount >= RMax)
    /\ (node = "paused" /\ from = "verification" /\ ~hist.overridden
         /\ hist.startedAt = "intake" =>
            hist.runV = VMax /\ VCount = VMax)
    /\ (wpc = "graph" /\ node = "END" /\ from = "paused" /\ ~hist.overridden =>
            st["status"] = "paused")
LoopCounterStep ==
    LET v2 == Get(st', "verification_loop_count", 0)
        r2 == Get(st', "review_loop_count", 0)
        runs(n) == wpc = "graph" /\ wpc' = "graph" /\ node = n /\ from' = n
        startsAtIntake == wpc = "spawned" /\ from' = "START"
    IN  /\ (runs("verification") => v2 = VCount + 1)
        /\ (runs("review") => r2 = RCount + 1)
        /\ (v2 # VCount => runs("verification") \/ (startsAtIntake /\ v2 = 0))
        /\ (r2 # RCount => runs("review") \/ (startsAtIntake /\ r2 = 0))
GraphTerminates ==
    /\ [](hist.startedAt = "intake" /\ ~hist.overridden =>
            hist.runV <= VMax /\ hist.runR <= RMax)
    /\ [](wpc = "graph" /\ node = "END" => from \in {"retrospective", "paused"})
    /\ ((wpc = "graph" /\ hist.startedAt = "intake")
            ~> (wpc # "graph" \/ node = "END"))

\* the longest run from intake: three verifications, three reviews, then
\* retrospective and END
GraphTerminatesWitness ==
    /\ wpc = "graph"
    /\ node = "END"
    /\ from = "retrospective"
    /\ hist.startedAt = "intake"
    /\ hist.resumes = 0
    /\ hist.runV = 3
    /\ hist.runR = 3

\* C6: a run whose persisted final status is completed has executed the
\* retrospective node.
CompletedImpliesRetrospective ==
    (wpc \in {"emit", "exited"} /\ rdb.status = "completed")
        => "retrospective" \in hist.executed

\* C7: a run that ended paused carries an error text in its final state and
\* in its row.
PausedCarriesError ==
    (wpc = "exited" /\ hist.exit = "final" /\ rdb.status = "paused")
        => (rdb.error # "None" /\ Get(st, "error", "None") # "None")

\* C8: a run that ended paused has a checkpoint, and a Worker started for a
\* paused run does not start the graph at intake.
PausedHasCheckpoint ==
    /\ (wpc \in {"emit", "exited"} /\ rdb.status = "paused" => ckpt # NoCheckpoint)
    /\ (wpc = "graph" /\ hist.startedFor = "paused" => hist.startedAt # "intake")

\* C9: the accumulated cost and token count of the state never decrease.
CostNeverDecreases ==
    [][/\ Get(st', "cost_usd", 0) >= Get(st, "cost_usd", 0)
       /\ Get(st', "cost_input_tokens", 0) >= Get(st, "cost_input_tokens", 0)]_vars

Present(k) == k \in DOMAIN edgeState
CfgHas(name) ==
    /\ Present("config_snapshot")
    /\ "pipeline" \in DOMAIN edgeState["config_snapshot"]
    /\ name \in DOMAIN edgeState["config_snapshot"]["pipeline"]
CfgMax(name) ==
    IF CfgHas(name) THEN edgeState["config_snapshot"]["pipeline"][name] ELSE 3
CountOf(k) == IF Present(k) THEN edgeState[k] ELSE 0
IsTrue(k) == Present(k) /\ edgeState[k]
Prescribed(flag, count, max, fwd, back) ==
    IF IsTrue(flag) THEN fwd
    ELSE IF CountOf(count) < CfgMax(max) THEN back
    ELSE "paused"

EdgesFollowGraph ==
    /\ edgeFn = "after_verification" =>
          edgeLabel = Prescribed("behaviour_verified", "verification_loop_count",
                                 "max_verification_loops", "tdd", "translation")
    /\ edgeFn = "after_review" =>
          edgeLabel = Prescribed("review_passed", "review_loop_count",
                                 "max_review_dev_loops", "rebase", "tdd")
    /\ edgeFn = "after_rebase" =>
          edgeLabel = (IF Present("rebase_clean") /\ ~edgeState["rebase_clean"]
                       THEN "paused" ELSE "delivery")

\* after_verification tripped the breaker exactly at the default maximum,
\* with the flag, and the configured maximum, both missing
EdgesFollowGraphWitness ==
    /\ edgeFn = "after_verification"
    /\ edgeLabel = "paused"
    /\ ~Present("behaviour_verified")
    /\ ~CfgHas("max_verification_loops")
    /\ CountOf("verification_loop_count") = 3

\* ----------------------------------------------------- the stream of a run
Stream == streams[_stream_key(Cr)]

\* number of events of the given type (any stage tag)
CountType(S, type) == Cardinality({i \in 1..Len(S) : S[i].type = type})

\* number of events of the given type under the given stage tag
CountTagged(S, type, stage) ==
    Cardinality({i \in 1..Len(S) : S[i].type = type /\ S[i].stage = stage})

PipelineNodes == {PIPELINE_NODE_ORDER[i] : i \in 1..Len(PIPELINE_NODE_ORDER)}

PipelineStageTags == {StageTag(n) : n \in PipelineNodes}

SubStageTags ==
    {SubStage("tdd", "test_writer"), SubStage("tdd", "code_writer")}
    \cup {SubStage("review", r) : r \in ReviewerSet}

\* a fresh run that has ended: verification and review passed at the first
\* attempt, the rebase was clean, the Worker has exited
HappyPathDone ==
    /\ wpc = "exited"
    /\ hist.resumes = 0
    /\ hist.exit = "final"
    /\ hist.runV = 1
    /\ hist.runR = 1
    /\ rdb.status = "completed"

\* C11 (as stated): on the happy path the stream starts with
\* pipeline_started, holds exactly 12 stage_entered events and ends with
\* pipeline_completed.
HappyPathTwelveStageEntered ==
    HappyPathDone =>
        /\ Stream[1].type = "pipeline_started"
        /\ CountType(Stream, "stage_entered") = 12
        /\ Last(Stream).type = "pipeline_completed"

\* C11 (amended): on the happy path the stream starts with pipeline_started,
\* holds exactly one stage_entered for each of the 12 pipeline stages and
\* exactly one for each of the five sub-stages (tdd:test_writer,
\* tdd:code_writer, review:<role> for the three reviewers), 17 in all, and
\* ends with pipeline_completed.
HappyPathStageEntered ==
    HappyPathDone =>
        /\ Stream[1].type = "pipeline_started"
        /\ Cardinality(PipelineStageTags) = 12
        /\ \A t \in PipelineStageTags \cup SubStageTags :
              CountTagged(Stream, "stage_entered", t) = 1
        /\ CountType(Stream, "stage_entered") = 17
        /\ Last(Stream).type = "pipeline_completed"

\* the happy path has been run to the end, the quality reviewer having
\* started before the security reviewer
HappyPathWitness ==
    /\ HappyPathDone
    /\ \E i, j \in 1..Len(Stream) :
        /\ i < j
        /\ Stream[i] = [id |-> Stream[i].id, type |-> "stage_entered",
                        stage |-> SubStage("review", "quality_reviewer")]
        /\ Stream[j] = [id |-> Stream[j].id, type |-> "stage_entered",
                        stage |-> SubStage("review", "security_reviewer")]

\* the agent_* event types
AgentEventTypes ==
    {"agent_started", "agent_completed", "agent_output", "agent_tool_call",
     "agent_nudge"}

\* positions before k of the stage_entered / stage_completed events of tag t
Brackets(S, k, t) ==
    {i \in 1..(k - 1) : S[i].stage = t
                        /\ S[i].type \in {"stage_entered", "stage_completed"}}

\* stage t is open just before position k: its latest bracket is stage_entered
OpenAt(S, k, t) ==
    /\ Brackets(S, k, t) # {}
    /\ LET m == CHOOSE i \in Brackets(S, k, t) :
                    \A j \in Brackets(S, k, t) : j <= i
       IN  S[m].type = "stage_entered"

\* C12: every stage_completed follows a stage_entered with the same stage
\* tag that no stage_completed has closed yet, every agent event lies inside
\* the open bracket of its stage tag, and a pipeline node that has returned
\* has closed its stage.
StageBracketing ==
    /\ \A k \in 1..Len(Stream) :
          Stream[k].type \in {"stage_completed"} \cup AgentEventTypes
              => OpenAt(Stream, k, Stream[k].stage)
    /\ (wpc = "graph" /\ from \in PipelineNodes)
          => /\ Brackets(Stream, Len(Stream) + 1, StageTag(from)) # {}
             /\ ~OpenAt(Stream, Len(Stream) + 1, StageTag(from))

\* C13: _pick_resume_node returns rebase when rebase_clean is a key of the
\* map, else review when review_passed is a key, else verification when
\* behaviour_verified is a key, else paused: the latest mapped node in
\* pipeline order, whatever the values and whatever other keys are present.
PickResumeNodeLatest ==
    pickOut # "none" =>
        pickOut = IF "rebase_clean" \in DOMAIN pickIn THEN "rebase"
                  ELSE IF "review_passed" \in DOMAIN pickIn THEN "review"
                  ELSE IF "behaviour_verified" \in DOMAIN pickIn THEN "verification"
                  ELSE "paused"

\* called with two recognised keys carrying FALSE and an unrecognised one
PickResumeNodeWitness ==
    /\ pickOut = "review"
    /\ DOMAIN pickIn = {"review_passed", "behaviour_verified", "unknown_key"}
    /\ ~pickIn["review_passed"]
    /\ ~pickIn["behaviour_verified"]

\* a Worker spawned by a resume with {review_passed: true} of a run that the
\* review circuit breaker had paused
ResumedPastReview ==
    /\ hist.breaker = "review"
    /\ hist.resumedWith = ("review_passed" :> TRUE)
    /\ wpc \in {"graph", "emit", "exited"}

\* C14: such a Worker applies the overrides as the review node, executes
\* rebase next and neither tdd nor review; when the rebase is clean and the
\* Worker ends without an exception the run has passed through retrospective,
\* its status is completed and the stream ends with pipeline_completed.
ResumeReviewPassedContinues ==
    ResumedPastReview =>
        /\ hist.startedAt = "rebase"
        /\ Get(st, "review_passed", FALSE) = TRUE
        /\ hist.ran \cap {"tdd", "review"} = {}
        /\ (hist.ran = {} /\ wpc = "graph") => (from = "review" /\ node = "rebase")
        /\ (wpc = "exited" /\ hist.exit = "final" /\ Get(st, "rebase_clean", FALSE) = TRUE)
              => /\ "retrospective" \in hist.ran
                 /\ rdb.status = "completed"
                 /\ Last(Stream).type = "pipeline_completed"

\* the same, for deployments whose Workers have a checkpointer
ResumeReviewPassedWithCheckpoint == checkpointer => ResumeReviewPassedContinues

ResumeReviewPassedWitness ==
    /\ ResumedPastReview
    /\ checkpointer
    /\ wpc = "exited"
    /\ rdb.status = "completed"

\* a step in which the resume endpoint answered a request
ResumeAnswered == hist'.response # hist.response \/ hist'.resumes # hist.resumes

\* C15: the resume endpoint accepts a request only when the row's status is
\* paused or failed; a refused request (409) leaves the stored overrides, the
\* row, the stream and the Worker as they are; an accepted one stores its
\* overrides, sets the status to running and spawns a Worker.
ResumeOnlyPausedOrFailed ==
    [][ResumeAnswered =>
          IF rdb.status \in {"paused", "failed"}
          THEN /\ hist'.response = 200
               /\ hist'.resumes = hist.resumes + 1
               /\ hist'.resumedWith # EmptyDict => overridesKey' = hist'.resumedWith
               /\ rdb'.status = "running"
               /\ wpc' = "spawned"
          ELSE /\ hist'.response = 409
               /\ UNCHANGED <<rdb, overridesKey, wpc, streams, ckpt>>]_vars

\* a request for a completed run was refused, and one for a paused run accepted
ResumeRefusedWitness ==
    /\ hist.response = 409
    /\ rdb.status = "completed"
    /\ wpc = "exited"

\* C16: after the Worker process died without running its handler, a resume
\* request for the CR is accepted.
CrashedRunResumable ==
    [][(wpc = "crashed" /\ ResumeAnswered) => hist'.response = 200]_vars

\* the path the call was given (list_directory defaults to ".")
ToolUserPath ==
    IF "path" \in DOMAIN toolInput THEN toolInput["path"] ELSE <<".">>

\* C17: read_file, write_file and list_directory, on either backend, touch
\* only descendants of the working directory, and a path that resolves
\* outside it gets the answer "Error: Path escapes working directory".
PathConfinement ==
    (ToolCalled /\ toolName \in {"read_file", "write_file", "list_directory"}) =>
        /\ \A t \in toolTouched : is_relative_to(t, WorkingDir)
        /\ (("path" \in DOMAIN toolInput \/ toolName = "list_directory")
            /\ ~is_relative_to(Reach(WorkingDir, ToolUserPath), WorkingDir))
              => toolOut = <<"Error", ": ", "Path escapes working directory">>

\* the same for the Claude backend alone, whose executor guards every path
PathConfinementClaude == toolBackend = "claude" => PathConfinement

\* what makes a call fail: a tool that does not exist, a required input key
\* that is missing, a file or directory that is not there, a path the
\* executor refuses, an I/O error, a command that does not finish in time
ToolFailure ==
    LET reach == Reach(WorkingDir, ToolUserPath)
        refused == toolBackend = "claude" /\ ~is_relative_to(reach, WorkingDir)
    IN
    CASE toolName = "read_file" ->
            "path" \notin DOMAIN toolInput \/ refused \/ reach \notin Files \/ toolFault
      [] toolName = "write_file" ->
            {"path", "content"} \ DOMAIN toolInput # {} \/ refused
            \/ reach \in Dirs \/ toolFault
      [] toolName = "list_directory" -> refused \/ reach \notin Dirs \/ toolFault
      [] toolName = "run_command" ->
            "command" \notin DOMAIN toolInput \/ toolInput["command"] = "timeout"
      [] OTHER -> TRUE

Submitted == strip(cmdIn)

\* s occurs in v as a run of adjacent symbols
Occurs(s, v) ==
    \E i \in 1..(Len(v) - Len(s) + 1) : SubSeq(v, i, i + Len(s) - 1) = s

\* the disallowed shell metacharacters
Disallowed ==
    {<<";">>, <<"|">>, <<"backtick">>, <<"\n">>, <<"$", "(">>, <<"&", "&">>,
     <<"|", "|">>, <<">">>, <<">", ">">>, <<"<">>}

\* C19: a test_command is accepted iff, stripped, it is empty (and becomes
\* pytest) or holds no disallowed metacharacter and is an allow-listed base
\* command, alone or followed by a space and more; a rejected command
\* creates no CR row.
TestCommandAccepted ==
    cmdStatus # "none" =>
        /\ cmdStatus = "accepted" <=>
              \/ Submitted = <<>>
              \/ /\ \A m \in Disallowed : ~Occurs(m, Submitted)
                 /\ \E base \in _ALLOWED_TEST_COMMANDS :
                       \/ Submitted = base
                       \/ /\ Len(Submitted) > Len(base)
                          /\ SubSeq(Submitted, 1, Len(base)) = base
                          /\ Submitted[Len(base) + 1] = " "
        /\ cmdStatus = "accepted" =>
              cmdRow /\ cmdStored = (IF Submitted = <<>> THEN <<"pytest">> ELSE Submitted)
        /\ cmdStatus = "rejected" => ~cmdRow /\ cmdStored = <<>>

\* an allowed base command followed by " &&" was rejected
TestCommandWitness ==
    /\ cmdStatus = "rejected"
    /\ cmdIn = <<"pytest", " ", "&", "&">>

\* first position of provider p in the configured chain
FirstInConfig(p) == CHOOSE i \in 1..Len(chConfig) :
                        chConfig[i] = p /\ \A j \in 1..(i - 1) : chConfig[j] # p

\* the providers execute may try: registered, and natural or configured
Eligible == chRegistry \cap ({chNatural} \cup Range(chConfig))

\* p comes before q in the order of the claim
TriedBefore(p, q) ==
    /\ q # chNatural
    /\ p = chNatural \/ FirstInConfig(p) < FirstInConfig(q)

RetryCalls == Len(rtErrors) + (IF rtPc = "returned" THEN 1 ELSE 0)

PhaseNames == {"explore", "plan", "act"}

\* the provider calls of the trace, and those of one phase
CallsAt == {i \in 1..Len(phTrace) : phTrace[i].kind = "call"}

EventsAt(type, phase) ==
    {i \in 1..Len(phTrace) : phTrace[i] = PhaseEvent(type, phase)}

\* the phases requested by the task; act always is
Configured == {p \in PhaseNames : PhaseModel(phTask, p) # ""}

\* the rate table, read without the cost function
RateOf(model) == IF model \in DOMAIN _MODEL_COSTS THEN _MODEL_COSTS[model]
                 ELSE <<300, 1500>>

\* what one provider call adds to a total of the result
CallAmount(i, what) ==
    CASE what = "input" -> phTrace[i].input
      [] what = "output" -> phTrace[i].output
      [] OTHER -> phTrace[i].input * RateOf(phTrace[i].model)[1]
                  + phTrace[i].output * RateOf(phTrace[i].model)[2]

RECURSIVE SumCalls(_, _)
SumCalls(S, what) ==
    IF S = {} THEN 0
    ELSE LET i == CHOOSE x \in S : TRUE
         IN  CallAmount(i, what) + SumCalls(S \ {i}, what)

\* C22: for every combination of configured phases, cost_usd is the sum of
\* the costs of the phases that ran, each from its own token counts and its
\* own model's rates (default rates for an unknown model), and the token
\* counts of the result are the sums over those phases.
PhaseCostAdditive ==
    phPhase = "done" =>
        /\ \A i \in CallsAt :
              phTrace[i].model = PhaseModel(phTask, phTrace[i].phase)
        /\ phTotal.cost = SumCalls(CallsAt, "cost")
        /\ phTotal.input = SumCalls(CallsAt, "input")
        /\ phTotal.output = SumCalls(CallsAt, "output")

\* explore on haiku, plan on opus and act on a model without rates all ran
PhaseCostWitness ==
    /\ phPhase = "done"
    /\ phTask.explore_model = "claude-haiku-4-5-20251001"
    /\ phTask.plan_model = "claude-opus-4-20250514"
    /\ phTask.model = "claude-next"
    /\ Cardinality(CallsAt) = 5

\* position of a phase; a run that raised has left no phase behind it
PhaseRank(p) ==
    CASE p = "explore" -> 1 [] p = "plan" -> 2 [] p = "act" -> 3
      [] p = "done" -> 4 [] OTHER -> 0

\* C23: with explore_model and/or plan_model set the configured phases run
\* in the order explore, plan, act, each between a phase_started before its
\* first provider call and a phase_completed after its last; with neither
\* set only the act loop runs, on the unchanged user prompt, and no phase
\* event is emitted.  Events are what the task's on_event callback receives.
PhasesBracketed ==
    /\ \A i, j \in 1..Len(phTrace) :
          i < j => PhaseRank(phTrace[i].phase) <= PhaseRank(phTrace[j].phase)
    /\ \A i \in 1..Len(phTrace) : phTrace[i].phase \in Configured
    /\ phPhase = "done" =>
          \A p \in Configured : \E i \in CallsAt : phTrace[i].phase = p
    /\ (phTask.on_event /\ Configured # {"act"}) =>
          \A p \in PhaseNames :
              /\ Cardinality(EventsAt("phase_started", p)) <= 1
              /\ Cardinality(EventsAt("phase_completed", p)) <= 1
              /\ \A i \in CallsAt : phTrace[i].phase = p =>
                    /\ \E s \in EventsAt("phase_started", p) : s < i
                    /\ \A c \in EventsAt("phase_completed", p) : i < c
                    /\ PhaseRank(phPhase) > PhaseRank(p) =>
                          EventsAt("phase_completed", p) # {}
    /\ Configured = {"act"} =>
          \A i \in 1..Len(phTrace) :
              /\ phTrace[i].kind = "call"
              /\ phTrace[i].phase = "act"
              /\ phTrace[i].prompt = UserPrompt

\* explore and act ran without a plan phase, and the listener saw both
\* bracketed
PhasesBracketedWitness ==
    /\ phPhase = "done"
    /\ phTask.on_event
    /\ Configured = {"explore", "act"}
    /\ Len(phTrace) = 8
    /\ phTrace[1] = PhaseEvent("phase_started", "explore")
    /\ phTrace[8] = PhaseEvent("phase_completed", "act")

\* --------------------------------------------- replay cursor and SSE stream
\* the stream's entries from from_id on, read off the stream itself
FromOnwards == SelectSeq(streams[ccr], LAMBDA e : e.id >= sseFrom)

\* C24: replay(cr_id, from_id) returns the stream's events from from_id
\* inclusive in stream order; last_id is the id of the last returned event,
\* and "0" only if the stream is empty; handing last_id to subscribe
\* continues strictly after the replayed events and never delivers an event
\* before from_id.
ReplayCursorSuitable ==
    /\ (cpc = "replayed" /\ Len(buffer) = replayCount) =>
          /\ buffer = SubSeq(FromOnwards, 1, replayCount)
          /\ replayCount > 0 => cursor = Last(buffer).id
          /\ cursor = 0 => sseSeen = 0
    /\ \A i \in 1..Len(delivered) : delivered[i] >= sseFrom
    /\ \A i, j \in 1..Len(delivered) : i < j => delivered[i] < delivered[j]

\* the type of a delivered event
TypeOfId(id) ==
    LET i == CHOOSE k \in 1..Len(streams[ccr]) : streams[ccr][k].id = id
    IN  streams[ccr][i].type

TerminalDelivered ==
    \E i \in 1..Len(delivered) :
        TypeOfId(delivered[i]) \in
            {"pipeline_completed", "pipeline_failed", "pipeline_paused"}

\* C25: the SSE stream (replay from "0", then subscribe from the replay
\* cursor) closes once it has delivered a terminal event, pipeline_completed,
\* pipeline_failed or pipeline_paused: nothing is delivered after one, and
\* it closes for no other reason than a terminal event or a disconnect.
SseClosesOnTerminal ==
    [][sseFrom = 0 =>
          /\ TerminalDelivered => delivered' = delivered
          /\ cpc' = "closed" => (TerminalDelivered' \/ sseGone)]_vars

\* ------------------------------------------- interventions and the nodes
\* a step in which a pipeline node does its work
NodeRuns == wpc = "graph" /\ wpc' = "graph" /\ node # "END" /\ node' # node

\* C26: an intervention stored for a CR while its pipeline runs is consumed
\* (through poll_intervention) by the next pipeline node that starts work.
InterventionReadByNextNode ==
    [][(NodeRuns /\ kv[_intervention_key(Cr)] # NoValue) =>
           kv'[_intervention_key(Cr)] = NoValue]_vars

\* ------------------------------------------------- the verdict of the review
\* the step in which a repo's verdict is appended to review_results
VerdictStep == Len(rvResults') = Len(rvResults) + 1

\* some reviewer of the repo reported a finding of this severity
Reported(sev) ==
    \E r \in ReviewerSet : \E i \in 1..Len(rvOut[r].findings) :
        rvOut[r].findings[i] = sev

\* C27: review_passed of a repo is true iff the merged findings of the
\* three reviewers hold no critical and no major finding; the state's
\* review_passed is the AND over the repos; review_loop_count grows by 1;
\* the verdict is computed, and the review's stage_completed emitted, only
\* after all three concurrently running reviewers have finished.
ReviewVerdict ==
    /\ [][VerdictStep =>
            /\ \A r \in ReviewerSet : rvOut[r].status = "done"
            /\ Last(rvResults').review_passed
                   <=> ~(Reported("critical") \/ Reported("major"))]_vars
    /\ [](rvCompleted =>
            /\ Len(rvResults) = rvRepos
            /\ \A r \in ReviewerSet : rvOut[r].status = "idle"
            /\ rvUpdate.review_loop_count = rvLoop + 1
            /\ rvUpdate.review_passed
                   <=> \A i \in 1..Len(rvResults) : rvResults[i].review_passed)

\* two repos were reviewed, the second one has a major finding from the
\* last reviewer to finish, and the review did not pass
ReviewVerdictWitness ==
    /\ rvPc = "done"
    /\ rvRepos = 2
    /\ rvResults[1].review_passed
    /\ rvResults[2].findings = <<"minor", "major">>
    /\ ~rvUpdate.review_passed
    /\ rvUpdate.review_loop_count = 3

\* C28: an agent verdict that cannot be parsed as JSON is never taken as a
\* positive verdict; for the review: a repo of which some reviewer's output
\* was not JSON does not pass.
UnparseableNeverPasses ==
    [][(VerdictStep /\ \E r \in ReviewerSet : rvOut[r].raw = <<"prose">>) =>
           ~Last(rvResults').review_passed]_vars

\* --------------------------------------------- the TDD loop and its tests
\* positions in the trace of the entries of one repo of a given kind
TdAt(repo, what) ==
    {i \in 1..Len(tdTrace) : tdTrace[i].repo = repo /\ tdTrace[i].what = what}

\* the repos the node has begun to work on
TdBegun == {r \in 1..tdRepos : \E i \in 1..Len(tdTrace) : tdTrace[i].repo = r}

\* the loop is over for the repo: the node went on, returned or raised
TdLeft(r) == r < tdRepo \/ tdPc \in {"return", "done", "raised"}

\* the shape of the work on one repo: test_writer once and first, then
\* code_writer and test run in turn, at most tdMax times, nothing after the
\* first passing test run but the commit
TdLoopShape(r) ==
    /\ Cardinality(TdAt(r, "test_writer")) = 1
    /\ \A i \in 1..Len(tdTrace) : tdTrace[i].repo = r =>
          \E w \in TdAt(r, "test_writer") : w <= i
    /\ Cardinality(TdAt(r, "code_writer")) <= tdMax
    /\ Cardinality(TdAt(r, "tests")) <= Cardinality(TdAt(r, "code_writer"))
    /\ \A c \in TdAt(r, "code_writer") :
          \/ c = Len(tdTrace)
          \/ tdTrace[c + 1].repo = r /\ tdTrace[c + 1].what = "tests"
    /\ \A t \in TdAt(r, "tests") :
          /\ tdTrace[t - 1].what = "code_writer"
          /\ tdTrace[t].passed =>
                \A i \in (t + 1)..Len(tdTrace) :
                    tdTrace[i].repo = r => tdTrace[i].what = "commit"
    /\ Cardinality(TdAt(r, "commit")) <= 1

\* C29: for each repo the TDD node runs test_writer once, then code_writer
\* followed by the test command at most max_tdd_iterations times, stops at
\* the first passing test run, and afterwards commits and pushes the
\* repo's work whether the tests pass or not; dev_loop_count grows by 1
\* per execution of the node.
TddLoop ==
    tdNode = "tdd" =>
        /\ \A r \in TdBegun : TdLoopShape(r)
        /\ \A r \in TdBegun : TdLeft(r) => TdAt(r, "commit") # {}
        /\ tdPc = "done" => tdUpdate = tdLoop + 1

\* the same, for executions in which no test run times out
TddLoopWithoutTimeout ==
    (tdNode = "tdd" /\ tdPc # "raised") =>
        /\ \A r \in TdBegun : TdLoopShape(r)
        /\ \A r \in TdBegun : TdLeft(r) => TdAt(r, "commit") # {}
        /\ tdPc = "done" => tdUpdate = tdLoop + 1

\* C30: a test command that exceeds the timeout is killed and reported as
\* a failed run (False with a timed-out message) in every node that runs
\* tests, TDD, rebase and delivery; the node does not raise.
TestTimeoutIsFailure ==
    /\ \A i \in 1..Len(tdTrace) :
          (tdTrace[i].what = "tests" /\ tdTrace[i].outcome = "timeout") =>
              /\ tdTrace[i].killed
              /\ ~tdTrace[i].passed
              /\ ~tdTrace[i].raised
              /\ tdTrace[i].output = "timed out"
    /\ tdPc # "raised"

\* the same, for the nodes other than TDD
TestTimeoutIsFailureElsewhere == tdNode # "tdd" => TestTimeoutIsFailure

\* ------------------------------------------------ the rebase node's result
RbRepoSet == 1..rbRepos

RbNamed(seq, r) == \E i \in 1..Len(seq) : seq[i] = r

RbAborted == {r \in RbRepoSet : rbEnd[r] = "aborted"}

\* C31: for a repo whose rebase conflicts the conflict_resolver runs once
\* and then at most 3 more times; a rebase that is still not completed is
\* aborted and the node returns rebase_clean = false, status = paused and
\* an error naming the repo; if the repo's continue succeeds, and no other
\* repo was aborted, the node returns rebase_clean = true and no status.
RebaseRetries ==
    /\ \A r \in RbRepoSet :
          /\ rbCalls[r] <= 1 + RebaseMoreAttempts
          /\ rbCalls[r] > 0 => RbNamed(rbConflicts, r)
          /\ rbEnd[r] \in {"resolved", "aborted"} => rbCalls[r] >= 1
    /\ rbPc = "done" =>
          \A r \in RbRepoSet :
              /\ rbEnd[r] = "aborted" =>
                    /\ ~rbUpdate.rebase_clean
                    /\ rbUpdate.status = "paused"
                    /\ RbNamed(rbUpdate.error, r)
              /\ (rbEnd[r] = "resolved" /\ RbAborted = {}) =>
                    /\ rbUpdate.rebase_clean
                    /\ rbUpdate.status = "unchanged"

\* the same for a run with one affected repo
RebaseRetriesOneRepo == rbRepos = 1 => RebaseRetries

\* C40: rebase_clean is true only if every repo ended clean or resolved:
\* one repo whose rebase was aborted makes rebase_clean false and the
\* status paused, whatever happens to the repos after it.
RebaseCleanMeansAllClean ==
    rbPc = "done" =>
        /\ rbUpdate.rebase_clean => RbAborted = {}
        /\ RbAborted # {} => rbUpdate.status = "paused"

\* the same when the aborted repo is the last one with a conflict
RebaseCleanWhenAbortedLast ==
    (rbPc = "done" /\ rbConflicts # <<>>
        /\ rbEnd[rbConflicts[Len(rbConflicts)]] = "aborted") =>
        ~rbUpdate.rebase_clean /\ rbUpdate.status = "paused"

\* ------------------------------------------------- delivery and its tests
DlFailed == \E i \in 1..Len(dlResults) : ~dlResults[i].tests_passing

\* C32: in the delivery node a repo's branch is pushed only if its test run
\* passed; all_delivered is true iff every repo has tests passing and
\* branch pushed; a run whose delivery tests fail still goes through
\* release_gate, release and retrospective and ends with status completed
\* and all_delivered = false.
DeliveryPushesOnlyGreen ==
    /\ \A i \in 1..Len(dlResults) :
          dlResults[i].branch_pushed => dlResults[i].tests_passing
    /\ dlPc \in {"graph", "done"} =>
          (dlState["all_delivered"] <=>
              \A i \in 1..Len(dlResults) :
                  dlResults[i].tests_passing /\ dlResults[i].branch_pushed)
    /\ (dlPc = "done" /\ DlFailed) =>
          /\ dlPath = <<"release_gate", "release", "retrospective">>
          /\ dlFinal = "completed"
          /\ ~dlState["all_delivered"]

DeliveryPushesOnlyGreenWitness ==
    /\ dlPc = "done"
    /\ DlFailed
    /\ \E i \in 1..Len(dlResults) : dlResults[i].branch_pushed

\* ------------------------------------------- nodes as transactional units
\* a Worker starts for a run whose last Worker raised inside a node
ResumesAfterNodeFailure ==
    /\ wpc = "spawned" /\ wpc' = "graph"
    /\ hist.exit = "exception"
    /\ node \notin {"END", "none"}

\* C33: a node's update is checkpointed only after the node completes: a
\* Worker that raises inside a node keeps nothing of it and the handler
\* marks the run failed; a resumed Worker runs that node again from the
\* previous checkpoint, and no completed node's update (counter, cost) is
\* applied a second time.
NodeIsTransactional ==
    [][ /\ (wpc = "graph" /\ wpc' = "handler") => (st' = st /\ ckpt' = ckpt)
        /\ (wpc = "handler" /\ wpc' = "exited") => rdb'.status = "failed"
        /\ ResumesAfterNodeFailure => (node' = node /\ st' = st)
      ]_vars

\* the same for resumes that find a checkpoint and carry no overrides
NodeIsTransactionalFromCheckpoint ==
    [][ /\ (wpc = "graph" /\ wpc' = "handler") => (st' = st /\ ckpt' = ckpt)
        /\ (wpc = "handler" /\ wpc' = "exited") => rdb'.status = "failed"
        /\ (ResumesAfterNodeFailure /\ checkpointer /\ overridesKey = EmptyDict)
              => (node' = node /\ st' = st /\ st' = ckpt.values)
      ]_vars

\* ---------------------------------------------------- nudges are not lost
NgConsumedIds == {ngConsumed[i].id : i \in 1..Len(ngConsumed)}

\* C34: after each round that executed tools the nudge poller is consulted;
\* a returned nudge emits a nudge event, is appended as a user message after
\* that round's tool results, and is part of the messages of a following
\* provider call of the same loop: no consumed nudge is dropped unseen.
NudgeReachesModel ==
    /\ ngPoller => ngPolls = ngToolRounds
    /\ ngOnEvent => ngEvents = [i \in 1..Len(ngConsumed) |-> ngConsumed[i].id]
    /\ NudgesIn(ngMessages) = NgConsumedIds
    /\ \A i \in 1..Len(ngMessages) :
          ngMessages[i].kind = "nudge" =>
              i > 1 /\ ngMessages[i - 1].kind = "tool_results"
    /\ ngPc = "done" => NgConsumedIds \subseteq ngSent

\* the same for the nudges consumed before the last round the loop allows
NudgeReachesModelBeforeLastRound ==
    /\ ngPoller => ngPolls = ngToolRounds
    /\ ngOnEvent => ngEvents = [i \in 1..Len(ngConsumed) |-> ngConsumed[i].id]
    /\ NudgesIn(ngMessages) = NgConsumedIds
    /\ \A i \in 1..Len(ngMessages) :
          ngMessages[i].kind = "nudge" =>
              i > 1 /\ ngMessages[i - 1].kind = "tool_results"
    /\ ngPc = "done" =>
          \A i \in 1..Len(ngConsumed) :
              ngConsumed[i].round < ngMax - 1 => ngConsumed[i].id \in ngSent

\* ------------------------------------------ only offered tools are executed
\* C35: the tool loop executes only tools of the set offered for the
\* phase: in the explore phase and for the reviewers (read-only tools) a
\* tool-use block naming write_file or run_command is never executed.
OnlyOfferedToolsRun ==
    \A i \in 1..Len(ofCalls) :
        ofCalls[i].performed => ofCalls[i].name \in ofOffered

\* the tools passed to the provider are the read-only ones in those loops
ReadOnlyLoopsOfferReadOnly ==
    ofLoop \in {"explore", "reviewer"} => ofOffered = {"read_file", "list_directory"}

\* ------------------------------------------------- one Worker per active CR
\* C36: at any time at most one Worker is active for a CR, under any
\* interleaving of a trigger and concurrent resume requests: two resume
\* requests for the same paused or failed run never both spawn a Worker.
OneWorkerPerCr == rrSpawned + rrRunning <= 1

\* the same when no two resume requests are handled at the same time
OneWorkerPerCrSequential == ~rrOverlap => rrSpawned + rrRunning <= 1

\* ------------------------------------------- one terminal event per run
TerminalTypes == {"pipeline_completed", "pipeline_failed", "pipeline_paused"}

CrStream == streams[_stream_key(Cr)]

\* C37: each Worker run appends exactly one terminal event
\* (pipeline_completed, pipeline_failed or pipeline_paused) to the CR's
\* stream, and no event of that run follows it: what follows a terminal
\* event is the pipeline_started of the next run, and the stream of a
\* Worker that has exited ends with a terminal event.
OneTerminalEventPerRun ==
    /\ \A i \in 1..(Len(CrStream) - 1) :
          CrStream[i].type \in TerminalTypes =>
              CrStream[i + 1].type = "pipeline_started"
    /\ wpc = "exited" =>
          /\ Len(CrStream) > 0
          /\ CrStream[Len(CrStream)].type \in TerminalTypes

\* the same for runs that end paused or failed inside the graph or its
\* nodes
OneTerminalEventUnlessCompleted ==
    (\A i \in 1..Len(CrStream) : CrStream[i].type # "pipeline_completed")
        => (/\ \A i \in 1..(Len(CrStream) - 1) :
                  CrStream[i].type \in TerminalTypes =>
                      CrStream[i + 1].type = "pipeline_started"
            /\ (wpc = "exited" /\ hist.finalStatus # "running") =>
                  /\ Len(CrStream) > 0
                  /\ CrStream[Len(CrStream)].type \in TerminalTypes)

\* ------------------------------------------------ completed stays completed
\* C38: once a Worker has persisted status completed for a run, the row's
\* status is never changed again by that Worker or by the Controller,
\* whatever step fails afterwards (a failing emit of the terminal event
\* included).
CompletedIsFinal ==
    [][rdb.status = "completed" => rdb'.status = "completed"]_vars

\* the same once the Worker has exited after its terminal emit
CompletedIsFinalAfterExit ==
    [][(rdb.status = "completed" /\ wpc = "exited") =>
            rdb'.status = "completed"]_vars

\* ------------------------------------------------ a resume skips no stage
\* C39: after a resume with overrides no pipeline node executes unless
\* every node that precedes it in pipeline order has executed at least
\* once in the run's history: whatever the overrides, a resume cannot jump
\* over stages that never ran.
ResumeSkipsNoStage ==
    \A i \in 1..Len(PIPELINE_NODE_ORDER) :
        PIPELINE_NODE_ORDER[i] \in hist.executed =>
            \A j \in 1..(i - 1) : PIPELINE_NODE_ORDER[j] \in hist.executed

\* the same while no resume has carried an override that names a node
ResumeSkipsNoStageWithoutFlags ==
    (DOMAIN hist.resumedWith \cap DOMAIN OVERRIDE_NODE_MAP = {}) =>
        \A i \in 1..Len(PIPELINE_NODE_ORDER) :
            PIPELINE_NODE_ORDER[i] \in hist.executed =>
                \A j \in 1..(i - 1) : PIPELINE_NODE_ORDER[j] \in hist.executed
====
